---- MODULE Spec2Model ----
(***************************************************************************)
(* Sprint Pilot: the sync pipeline of src/src/agents/ticket-analyzer.ts    *)
(* (per-ticket model analysis, batched analysis step, webhook delivery     *)
(* with retry and HMAC signing) and the analyze-ticket tool.               *)
(*                                                                         *)
(* The specifications below share the variables:                           *)
(*   SpecAnalyzer  one call of an analyzer (workflow's analyzeTicket or    *)
(*                 the analyze-ticket tool's execute)                      *)
(*   SpecAnalyze   the analyze-tickets workflow step                       *)
(*   SpecDeliver   one call of deliverWebhook                              *)
(*   SpecReceiver  the webhook receiver handling one request               *)
(*   SpecFormat    one call of the sprint-formatter tool                   *)
(*   Spec          the sprint-sync workflow, fetch to result               *)
(***************************************************************************)
EXTENDS Integers, Sequences, FiniteSets, TLC

VARIABLES
    \* ---- one analyzer call ----
    apc,        \* "call" | "awaitModel" | "returned" | "idle"
    acaller,    \* "workflow" (analyzeTicket) | "tool" (analyzeTicketTool.execute)
    aticket,    \* the ticket being analyzed
    aoutcome,   \* what generateObject did for this call
    aresult,    \* the value the analyzer returned to its caller
    \* ---- analyze-tickets step ----
    pc,         \* "analyze" | "await" | "analyzed" | "idle"
    tasks,      \* inputData.tasks
    i,          \* the for loop's index (0-based)
    batch,      \* tasks.slice(i, i + batchSize)
    slots,      \* per batch position: the promise of its callback (pending or fulfilled)
    settled,    \* positions of the current batch in the order their promises settled
    results,    \* results: AnalyzedTicket[]
    modelLog,   \* per task index (1-based): what generateObject did for it, or NoCall
    \* ---- deliverWebhook ----
    dpc,        \* "call" | "inflight" | "backoff" | "delivered" | "failed" | "idle"
    payload,    \* argument payload
    secret,     \* argument secret (Undefined when omitted)
    retries,    \* argument retries
    attempt,    \* the for loop's counter
    lastError,  \* lastError: Error | null (NoError for null)
    sent,       \* log of the requests handed to fetch, in order
    outcomes,   \* log of what each fetch did, in order
    delays,     \* log of the setTimeout delays (ms) awaited, in order
    thrown,     \* the error deliverWebhook rejected with (NoError while none)
    \* ---- webhook receiver (createServer's request handler) ----
    rpc,        \* "listening" | "body" | "responded" | "idle"
    rsecret,    \* the secret createServer was given (Undefined when none)
    rreq,       \* the request being handled
    rresp,      \* the response written: status and error text
    rtrace,     \* what the handler did, in order: "verify", "parse", "write"
    rfile,      \* the files of the sprint directory (NoFile while it has none)
    \* ---- sprint-formatter tool ----
    fpc,        \* "call" | "returned" | "idle"
    ftickets,   \* inputData.tickets
    fmarkdown,  \* the markdown returned, a sequence of lines
    \* ---- sprint-sync workflow ----
    wpc,        \* "fetch" | "analyze" | "deliver" | "done" | "idle"
    wsecret,    \* inputData.webhookSecret
    wmarkdown,  \* the markdown the format-and-deliver step rendered
    wresult,    \* the workflow's result
    \* ---- task source client (fetchClickUpTasks / clickup-sync tool) ----
    spc,        \* "call" | "fetch" | "body" | "returned" | "threw" | "idle"
    svariant,   \* "workflow" (fetchClickUpTasks) | "tool" (clickupSyncTool.execute)
    senv,       \* the listId argument and the process environment
    supstream,  \* how the task source behaves for this call
    srequests,  \* the requests sent to the task source, in order
    stimer,     \* the 30 s timer: "unset" | "armed" | "cleared" | "fired"
    sresult,    \* the value returned ({tasks, listId})
    serror      \* the error thrown

analyzerVars == <<apc, acaller, aticket, aoutcome, aresult>>
stepVars     == <<pc, tasks, i, batch, slots, settled, results, modelLog>>
deliverVars  == <<dpc, payload, secret, retries, attempt, lastError, sent, outcomes, delays, thrown>>
recvVars     == <<rpc, rsecret, rreq, rresp, rtrace, rfile>>
formatVars   == <<fpc, ftickets, fmarkdown>>
flowVars     == <<wpc, wsecret, wmarkdown, wresult>>
sourceVars   == <<spc, svariant, senv, supstream, srequests, stimer, sresult, serror>>
vars         == <<analyzerVars, stepVars, deliverVars, recvVars, formatVars, flowVars, sourceVars>>

Null      == "null"
Undefined == "undefined"
\* a promise that has not settled yet
Pending   == [state |-> "pending"]
\* no generateObject call has settled for this task yet
NoCall    == [kind |-> "nocall", object |-> Null]

\* lastError = null
NoError   == [name |-> "null", message |-> "", status |-> 0]

\* ---- bounds ----
MaxTasks   == 7
MaxRetries == 4
MaxItems   == 3
MaxFetched == 2
MaxRaw     == 2

Min(a, b) == IF a < b THEN a ELSE b

RECURSIVE Pow2(_)
Pow2(n) == IF n <= 0 THEN 1 ELSE 2 * Pow2(n - 1)

RECURSIVE SumSeq(_)
SumSeq(s) == IF s = <<>> THEN 0 ELSE Head(s) + SumSeq(Tail(s))

(***************************************************************************)
(* Tickets and analyses                                                    *)
(***************************************************************************)
TicketIds == <<"86a1", "86a2", "86a3", "86a4", "86a5", "86a6", "86a7", "86a8", "86a9", "86aa">>

Ticket(k) == [id |-> TicketIds[k], name |-> <<"Task", k>>]

\* Analyses the model may produce (conforming to TicketAnalysisSchema:
\* qualityScore in 1..5, complexityTag in {fix, feature}).
ModelAnalyses ==
    [qualityScore : 1..5,
     qualityGaps : {<<>>, <<"No acceptance criteria">>},
     affectedFiles : {<<"app/page.tsx">>},
     complexityTag : {"fix", "feature"},
     suggestedApproach : {"Implement as described"}]

\* Two of them, used where several calls run side by side.
AnalysisA ==
    [qualityScore |-> 5, qualityGaps |-> <<>>,
     affectedFiles |-> <<"app/page.tsx">>, complexityTag |-> "fix",
     suggestedApproach |-> "Implement as described"]

AnalysisB ==
    [qualityScore |-> 2, qualityGaps |-> <<"No acceptance criteria">>,
     affectedFiles |-> <<"app/page.tsx">>, complexityTag |-> "feature",
     suggestedApproach |-> "Implement as described"]

\* What generateObject can do: resolve with a schema-conforming object, or
\* reject (API error, output that fails the schema, timeout/abort).
FailureKinds  == {"error", "malformed", "timeout"}
ModelOutcomes == [kind : {"ok"}, object : ModelAnalyses]
                   \cup [kind : FailureKinds, object : {Null}]

\* The outcomes enumerated inside the batched step (one failure kind: all
\* failure kinds take the same catch branch).
StepOutcomes == [kind : {"ok"}, object : {AnalysisA, AnalysisB}]
                  \cup [kind : {"error"}, object : {Null}]

\* catch branch of analyzeTicket
FallbackAnalysis ==
    [qualityScore |-> 3,
     qualityGaps |-> <<"Analysis failed - manual review needed">>,
     affectedFiles |-> <<>>,
     complexityTag |-> "feature",
     suggestedApproach |-> "Review ticket manually"]

\* catch branch of analyzeTicketTool.execute
ToolFallbackAnalysis ==
    [qualityScore |-> 3,
     qualityGaps |-> <<"Unable to perform detailed analysis due to technical error">>,
     affectedFiles |-> <<>>,
     complexityTag |-> "feature",
     suggestedApproach |-> "Review ticket requirements and identify relevant files manually"]

\* analyzeTicket: try { return (await generateObject(..)).object } catch { fallback }
analyzeTicket(ticket, outcome) ==
    IF outcome.kind = "ok" THEN outcome.object ELSE FallbackAnalysis

\* analyzeTicketTool.execute: same shape, its own fallback literal
analyzeTicketTool(ticket, outcome) ==
    IF outcome.kind = "ok" THEN outcome.object ELSE ToolFallbackAnalysis

(***************************************************************************)
(* Idle values of each group of variables                                  *)
(***************************************************************************)
AnalyzerIdle ==
    /\ apc = "idle" /\ acaller = "workflow" /\ aticket = Null
    /\ aoutcome = Null /\ aresult = Null

StepIdle ==
    /\ pc = "idle" /\ tasks = <<>> /\ i = 0 /\ batch = <<>> /\ slots = <<>>
    /\ settled = <<>> /\ results = <<>> /\ modelLog = <<>>

\* no payload built yet
NoPayload == [sprintMarkdown |-> <<>>, tickets |-> <<>>, metadata |-> 0]

DeliverIdle ==
    /\ dpc = "idle" /\ payload = NoPayload /\ secret = Undefined /\ retries = 0
    /\ attempt = 0 /\ lastError = NoError /\ sent = <<>> /\ outcomes = <<>>
    /\ delays = <<>> /\ thrown = NoError

\* no response written yet
NoResponse == [status |-> 0, error |-> ""]

\* the sprint file does not exist
NoFile == {}

\* no result returned yet
NoResult == [success |-> FALSE, ticketCount |-> -1, webhookDelivered |-> FALSE, message |-> <<>>]

ReceiverIdle ==
    /\ rpc = "idle" /\ rsecret = Undefined /\ rreq = Null /\ rresp = NoResponse
    /\ rtrace = <<>> /\ rfile = NoFile

FormatIdle ==
    /\ fpc = "idle" /\ ftickets = <<>> /\ fmarkdown = <<>>

FlowIdle ==
    /\ wpc = "idle" /\ wsecret = Undefined /\ wmarkdown = <<>> /\ wresult = NoResult

\* no error thrown by the source client
NoSourceError == [name |-> "", message |-> <<>>]

\* nothing returned by the source client
NoFetchResult == [tasks |-> <<>>, listId |-> ""]

\* a process environment and a task source that are not in use
NoEnv == [listId |-> Undefined, CLICKUP_LIST_ID |-> Undefined, CLICKUP_API_TOKEN |-> Undefined]
NoUpstream == [kind |-> "none", status |-> 0, items |-> <<>>]

SourceIdle ==
    /\ spc = "idle" /\ svariant = "none" /\ senv = NoEnv /\ supstream = NoUpstream
    /\ srequests = <<>> /\ stimer = "unset" /\ sresult = NoFetchResult
    /\ serror = NoSourceError

(***************************************************************************)
(* SpecAnalyzer: one analyzer call                                         *)
(***************************************************************************)
InitAnalyzer ==
    /\ apc = "call"
    /\ acaller \in {"workflow", "tool"}
    /\ aticket \in {Ticket(1), Ticket(2), Ticket(3)}
    /\ aoutcome = Null
    /\ aresult = Null
    /\ StepIdle
    /\ DeliverIdle
    /\ ReceiverIdle
    /\ FormatIdle
    /\ FlowIdle
    /\ SourceIdle

\* the prompt is built and generateObject is called
AnalyzerCallModel ==
    /\ apc = "call"
    /\ apc' = "awaitModel"
    /\ UNCHANGED <<acaller, aticket, aoutcome, aresult, stepVars, deliverVars, recvVars, formatVars, sourceVars, flowVars>>

\* generateObject settles; the analyzer returns
AnalyzerReturn ==
    /\ apc = "awaitModel"
    /\ \E o \in ModelOutcomes :
          /\ aoutcome' = o
          /\ aresult' = IF acaller = "workflow"
                          THEN analyzeTicket(aticket, o)
                          ELSE analyzeTicketTool(aticket, o)
    /\ apc' = "returned"
    /\ UNCHANGED <<acaller, aticket, stepVars, deliverVars, recvVars, formatVars, sourceVars, flowVars>>

NextAnalyzer == AnalyzerCallModel \/ AnalyzerReturn

SpecAnalyzer == InitAnalyzer /\ [][NextAnalyzer]_vars

\* C4: whenever the model call fails (error, malformed output, timeout) the
\* analyzer returns the one fixed fallback Analysis (score 3, the single gap
\* "manual review needed", no affected files, "feature", "Review ticket
\* manually"), the same value from the workflow's analyzer and from the
\* analyze-ticket tool.
C4_SameFallbackFromBothAnalyzers ==
    (apc = "returned" /\ aoutcome.kind # "ok") => aresult = FallbackAnalysis

(***************************************************************************)
(* SpecAnalyze: analyzeTicketsStep.execute                                 *)
(***************************************************************************)
batchSize == 5

\* Array.prototype.slice(from, to) with 0-based indices, 0 <= from <= to
Slice(s, from, to) ==
    [k \in 1..(Min(to, Len(s)) - Min(from, Len(s))) |-> s[from + k]]

\* mutant: everything that is left is taken as one batch
BatchAt_AllRemaining(ts, idx) == Slice(ts, idx, Len(ts))

\* the slice the loop takes at index idx
BatchAt(ts, idx) == Slice(ts, idx, idx + batchSize)

\* mutant: a trailing partial batch is skipped
StepLoopCond_FullBatchesOnly(idx, ts) == idx + batchSize <= Len(ts)

\* the loop condition  i < tasks.length
StepLoopCond(idx, ts) == idx < Len(ts)

\* the async callback of batch.map: { ticket, analysis: await analyzeTicket(..) }
MapCallback(ticket, outcome) ==
    [ticket |-> ticket, analysis |-> analyzeTicket(ticket, outcome)]

\* mutant: the values are collected in completion order
PromiseAll_CompletionOrder(sl, order) == [k \in DOMAIN order |-> sl[order[k]].value]

\* Promise.all resolves with the values in the order of its input promises
PromiseAll(sl, order) == [p \in DOMAIN sl |-> sl[p].value]

\* results.push(...batchResults)
Push(rs, batchResults) == rs \o batchResults

InitAnalyze ==
    /\ pc = "analyze"
    /\ \E n \in 0..MaxTasks : tasks = [k \in 1..n |-> Ticket(k)]
    /\ i = 0
    /\ batch = <<>>
    /\ slots = <<>>
    /\ settled = <<>>
    /\ results = <<>>
    /\ modelLog = [k \in 1..Len(tasks) |-> NoCall]
    /\ AnalyzerIdle
    /\ DeliverIdle
    /\ ReceiverIdle
    /\ FormatIdle
    /\ FlowIdle
    /\ SourceIdle

\* One pass through the loop head at index idx with results rs: either the
\* next batch is sliced and every callback of batch.map runs up to its
\* generateObject call (all calls of the batch are started in the same turn),
\* or the loop ends and the step returns.
StepLoopHead(idx, rs) ==
    /\ i' = idx
    /\ results' = rs
    /\ IF StepLoopCond(idx, tasks)
         THEN /\ batch' = BatchAt(tasks, idx)
              /\ slots' = [p \in 1..Len(BatchAt(tasks, idx)) |-> Pending]
              /\ settled' = <<>>
              /\ pc' = "await"
         ELSE /\ UNCHANGED <<batch, slots, settled>>
              /\ pc' = "analyzed"

\* execute is entered: the empty-list early return, or the first batch starts
StepExecute ==
    /\ pc = "analyze"
    /\ IF Len(tasks) = 0
         THEN /\ pc' = "analyzed"
              /\ results' = <<>>
              /\ UNCHANGED <<i, batch, slots, settled>>
         ELSE StepLoopHead(0, <<>>)
    /\ UNCHANGED <<tasks, modelLog, analyzerVars, deliverVars, recvVars, formatVars, sourceVars, flowVars>>

\* generateObject of the call at batch position p settles with outcome o and
\* the callback's promise settles
StepModelSettles ==
    /\ pc = "await"
    /\ \E p \in DOMAIN slots, o \in StepOutcomes :
          /\ slots[p].state = "pending"
          /\ slots' = [slots EXCEPT ![p] = [state |-> "fulfilled", value |-> MapCallback(batch[p], o)]]
          /\ settled' = Append(settled, p)
          /\ modelLog' = [modelLog EXCEPT ![i + p] = o]
    /\ UNCHANGED <<pc, tasks, i, batch, results, analyzerVars, deliverVars, recvVars, formatVars, sourceVars, flowVars>>

\* every promise of the batch has settled: Promise.all resolves, the batch's
\* results are pushed, i += batchSize, and the loop head runs again
StepBatchDone ==
    /\ pc = "await"
    /\ \A p \in DOMAIN slots : slots[p].state = "fulfilled"
    /\ StepLoopHead(i + batchSize, Push(results, PromiseAll(slots, settled)))
    /\ UNCHANGED <<tasks, modelLog, analyzerVars, deliverVars, recvVars, formatVars, sourceVars, flowVars>>

NextAnalyze == StepExecute \/ StepModelSettles \/ StepBatchDone

SpecAnalyze == InitAnalyze /\ [][NextAnalyze]_vars

\* calls of the step that are in flight (1-based task indices)
InFlight == {i + p : p \in {q \in DOMAIN slots : slots[q].state = "pending"}}

\* the group (0-based) the task at 1-based index g belongs to
GroupOf(g) == (g - 1) \div batchSize

\* C1: when the step returns, results has exactly one entry per fetched task,
\* whatever calls failed: the k-th entry is for the k-th task, so no task is
\* dropped or duplicated.
C1_OneAnalysisPerItem ==
    pc = "analyzed" =>
        /\ Len(results) = Len(tasks)
        /\ \A k \in 1..Len(tasks) : results[k].ticket = tasks[k]

\* two batches were run, the last one partial, with a failed and a successful call
C1_Witness ==
    /\ pc = "analyzed"
    /\ Len(tasks) > batchSize
    /\ Len(results) = Len(tasks)
    /\ \E k \in 1..Len(tasks) : modelLog[k].kind = "error"
    /\ \E k \in 1..Len(tasks) : modelLog[k].kind = "ok"

\* C2: never more than batchSize model calls in flight, and a call is in
\* flight only when every call of every earlier group has completed.
C2_AtMostBatchSizeInFlight ==
    /\ Cardinality(InFlight) <= batchSize
    /\ \A g \in InFlight : \A h \in 1..Len(tasks) :
          GroupOf(h) < GroupOf(g) => modelLog[h].kind # "nocall"

\* the cap is reached while more tasks are waiting
C2_Witness ==
    /\ Cardinality(InFlight) = batchSize
    /\ Len(tasks) > batchSize

\* C3: the k-th entry of results pairs the k-th task with the analysis
\* computed from the model call made for that task, whatever the order in
\* which the calls completed.
C3_OutputOrderIsInputOrder ==
    \A k \in 1..Len(results) :
        /\ k <= Len(tasks)
        /\ results[k].ticket = tasks[k]
        /\ results[k].analysis = analyzeTicket(tasks[k], modelLog[k])

\* two groups; the calls of the last group completed in reverse order and
\* got different analyses
C3_Witness ==
    /\ pc = "analyzed"
    /\ Len(tasks) = batchSize + 2
    /\ Len(results) = Len(tasks)
    /\ settled = <<2, 1>>
    /\ results[batchSize + 1].analysis # results[batchSize + 2].analysis

(***************************************************************************)
(* SpecDeliver: deliverWebhook(webhookUrl, payload, secret, retries)       *)
(***************************************************************************)
\* Error values: name, message and (for a non-2xx response) the status the
\* message carries.
GenericError == [name |-> "Error", message |-> "Webhook delivery failed after retries", status |-> 0]

Payloads ==
    { [sprintMarkdown |-> "# Sprint: 2026-02-13", tickets |-> <<"86a1">>, metadata |-> 1],
      [sprintMarkdown |-> "# Sprint: 2026-02-14", tickets |-> <<"86a1", "86a2">>, metadata |-> 2] }

\* a secret the caller may pass: omitted, the empty string, or a key
Secrets == {Undefined, "", "test-secret", "other-secret"}

\* JavaScript truthiness of an optional string
Truthy(x) == x # Undefined /\ x # ""

\* JSON.stringify(payload): the serialized text, as a token sequence
JSONstringify(p) ==
    <<"{sprintMarkdown:", p.sprintMarkdown, ",tickets:", p.tickets,
      ",metadata:", p.metadata, "}">>

\* createHmac('sha256', key).update(msg).digest('hex'), idealised: distinct
\* (key, message) pairs have distinct digests
HmacSha256Hex(key, msg) == <<"hmac-sha256", key, msg>>

\* mutant: the object is stringified with String(), not serialized
SignedMessage_StringOfObject(p) == <<"[object Object]">>

\* the text handed to hmac.update
SignedMessage(p) == JSONstringify(p)

\* the signature string, or Undefined when no signature is computed
Signature(p, sec) ==
    IF Truthy(sec)
      THEN <<"sha256=", HmacSha256Hex(sec, SignedMessage(p))>>
      ELSE <<Undefined>>

SigHeader == "X-Sprint-Pilot-Signature"

BaseHeaders == [h \in {"Content-Type", "User-Agent"} |->
                  IF h = "Content-Type" THEN <<"application/json">> ELSE <<"Sprint-Pilot/1.0">>]

\* mutant: the signature header is never set
Headers_Unsigned(p, sec) == BaseHeaders

Headers(p, sec) ==
    IF Signature(p, sec) # <<Undefined>>
      THEN [h \in DOMAIN BaseHeaders \cup {SigHeader} |->
              IF h = SigHeader THEN Signature(p, sec) ELSE BaseHeaders[h]]
      ELSE BaseHeaders

\* mutant: the body carries the number of the attempt
Request_AttemptStamped(p, sec) ==
    [method |-> "POST", headers |-> Headers(p, sec),
     body |-> JSONstringify(p) \o <<attempt>>]

\* the request handed to fetch
Request(p, sec) ==
    [method |-> "POST", headers |-> Headers(p, sec), body |-> JSONstringify(p)]

\* What fetch can do: resolve with a response, or reject (network failure).
Statuses       == {200, 299, 300, 500}
ResponseBodies == {"", "not json"}
FetchOutcomes  ==
    [kind : {"response"}, status : Statuses, body : ResponseBodies]
      \cup [kind : {"neterror"}, status : {0}, body : {""}]

\* mutant: a redirect-class status counts as success too
ResponseOk_Below400(o) == o.kind = "response" /\ o.status >= 200 /\ o.status < 400

\* fetch resolved and response.ok
ResponseOk(o) == o.kind = "response" /\ o.status >= 200 /\ o.status <= 299

\* the error caught in the catch block for a failed attempt
ErrorOf(o) ==
    IF o.kind = "neterror"
      THEN [name |-> "TypeError", message |-> "fetch failed", status |-> 0]
      ELSE [name |-> "Error", message |-> "Webhook delivery failed", status |-> o.status]

\* mutant: only the first error is remembered
CatchLastError_KeepFirst(le, err) == IF le = NoError THEN err ELSE le

\* lastError = error instanceof Error ? error : new Error('Unknown error')
CatchLastError(le, err) == err

\* mutant: one attempt too many
LoopCond_Inclusive(a, r) == a <= r

\* the loop condition  attempt < retries
LoopCond(a, r) == a < r

\* mutant: the wait is also made after the last attempt
ShouldBackoff_Always(a, r) == a < r

\* the guard of the wait  attempt < retries - 1
ShouldBackoff(a, r) == a < r - 1

\* mutant: the exponent is the 1-based attempt number
BackoffDelay_OneBased(a) == Pow2(a + 1) * 1000

\* Math.pow(2, attempt) * 1000  (milliseconds)
BackoffDelay(a) == Pow2(a) * 1000

InitDeliver ==
    /\ dpc = "call"
    /\ payload \in Payloads
    /\ secret \in Secrets
    /\ retries \in -1..MaxRetries
    /\ attempt = 0
    /\ lastError = NoError
    /\ sent = <<>>
    /\ outcomes = <<>>
    /\ delays = <<>>
    /\ thrown = NoError
    /\ AnalyzerIdle
    /\ StepIdle
    /\ ReceiverIdle
    /\ FormatIdle
    /\ FlowIdle
    /\ SourceIdle

\* mutant: lastError is thrown as it is
FinalError_NoFallback(le) == le

\* throw lastError || new Error('Webhook delivery failed after retries')
FinalError(le) == IF le # NoError THEN le ELSE GenericError

\* The loop head with counter a and lastError le: the next request is built
\* and handed to fetch, or the loop ends and  lastError || new Error(..)  is
\* thrown.
DeliverLoopHead(a, le) ==
    /\ attempt' = a
    /\ lastError' = le
    /\ IF LoopCond(a, retries)
         THEN /\ sent' = Append(sent, Request(payload, secret))
              /\ dpc' = "inflight"
              /\ thrown' = thrown
         ELSE /\ sent' = sent
              /\ dpc' = "failed"
              /\ thrown' = FinalError(le)

\* deliverWebhook is entered
DeliverCall ==
    /\ dpc = "call"
    /\ DeliverLoopHead(0, NoError)
    /\ UNCHANGED <<payload, secret, retries, outcomes, delays, analyzerVars, stepVars, recvVars, formatVars, sourceVars, flowVars>>

\* the awaited fetch settles with o and the response is ok: log and return
DeliverOk(o) ==
    /\ dpc = "inflight"
    /\ ResponseOk(o)
    /\ outcomes' = Append(outcomes, o)
    /\ dpc' = "delivered"
    /\ UNCHANGED <<payload, secret, retries, attempt, lastError, sent, delays, thrown>>

\* the awaited fetch settles with o, a rejection or a non-ok response: the
\* catch block runs; it either starts the backoff wait, or falls through to
\* attempt++ and the loop head
DeliverCatch(o) ==
    /\ dpc = "inflight"
    /\ ~ResponseOk(o)
    /\ outcomes' = Append(outcomes, o)
    /\ IF ShouldBackoff(attempt, retries)
         THEN /\ lastError' = CatchLastError(lastError, ErrorOf(o))
              /\ delays' = Append(delays, [after |-> attempt, ms |-> BackoffDelay(attempt)])
              /\ dpc' = "backoff"
              /\ UNCHANGED <<attempt, sent, thrown>>
         ELSE /\ delays' = delays
              /\ DeliverLoopHead(attempt + 1, CatchLastError(lastError, ErrorOf(o)))
    /\ UNCHANGED <<payload, secret, retries>>

\* fetch resolves with an ok response
DeliverResponseOk ==
    /\ \E o \in FetchOutcomes : DeliverOk(o)
    /\ UNCHANGED <<analyzerVars, stepVars, recvVars, formatVars, sourceVars, flowVars>>

\* fetch rejects or resolves with a non-ok response
DeliverAttemptFails ==
    /\ \E o \in FetchOutcomes : DeliverCatch(o)
    /\ UNCHANGED <<analyzerVars, stepVars, recvVars, formatVars, sourceVars, flowVars>>

\* the backoff timer fires: attempt++ and the loop head
DeliverBackoffElapsed ==
    /\ dpc = "backoff"
    /\ DeliverLoopHead(attempt + 1, lastError)
    /\ UNCHANGED <<payload, secret, retries, outcomes, delays, analyzerVars, stepVars, recvVars, formatVars, sourceVars, flowVars>>

NextDeliver ==
    DeliverCall \/ DeliverResponseOk \/ DeliverAttemptFails \/ DeliverBackoffElapsed

SpecDeliver == InitDeliver /\ [][NextDeliver]_vars

\* Every fetch settles (with a response or a rejection) and every timer fires.
FairSpecDeliver == SpecDeliver /\ WF_vars(NextDeliver)

DeliverDone == dpc \in {"delivered", "failed"}

\* the k-th attempt (1-based) failed
AttemptFailed(k) == k <= Len(outcomes) /\ ~ResponseOk(outcomes[k])

C6_ExponentialBackoff ==
    /\ \A k \in 1..Len(delays) :
          /\ delays[k].after = k - 1
          /\ AttemptFailed(k)
          /\ delays[k].ms = Pow2(delays[k].after) * 1000
    /\ dpc = "inflight" => Len(delays) = Len(sent) - 1
    /\ (dpc = "delivered" /\ Len(outcomes) = 3) =>
          /\ Len(sent) = 3
          /\ SumSeq([k \in 1..Len(delays) |-> delays[k].ms]) = 3000

\* fails twice, then succeeds on the third attempt
C6_Witness ==
    /\ dpc = "delivered"
    /\ retries = 3
    /\ Len(outcomes) = 3
    /\ AttemptFailed(1) /\ AttemptFailed(2) /\ ResponseOk(outcomes[3])
    /\ delays = <<[after |-> 0, ms |-> 1000], [after |-> 1, ms |-> 2000]>>

\* C7: the call fails in the very step in which the last attempt fails (or
\* on entry when no attempt is allowed): no wait is started or pending between
\* the last failure and the failure outcome, so only retries - 1 waits were made.
C7_NoWaitAfterFinalFailure ==
    /\ [][(dpc' = "failed" /\ dpc # "failed") =>
            (dpc \in {"inflight", "call"} /\ delays' = delays)]_vars
    /\ []((dpc = "failed" /\ retries >= 1) => Len(delays) = retries - 1)

\* three attempts failed, two waits were made
C7_Witness ==
    /\ dpc = "failed"
    /\ retries = 3
    /\ Len(outcomes) = 3
    /\ Len(delays) = 2

\* C8: when the call fails after at least one attempt, the error it throws is
\* the error of the last attempt.
C8_LastErrorSurfaced ==
    (dpc = "failed" /\ Len(outcomes) >= 1) =>
        thrown = ErrorOf(outcomes[Len(outcomes)])

\* three failures whose first and last errors differ
C8_Witness ==
    /\ dpc = "failed"
    /\ retries = 3
    /\ Len(outcomes) = 3
    /\ ErrorOf(outcomes[1]) # ErrorOf(outcomes[3])
    /\ thrown = ErrorOf(outcomes[3])

\* C9: the call is delivered exactly when the latest response is 2xx, whatever
\* its body; a 2xx response is always the last thing that happens (no request
\* follows it); every non-2xx response and every network error is a failed
\* attempt (followed by a wait, a further request or the failure).
C9_SuccessIffTwoXX ==
    /\ Len(outcomes) <= Len(sent)
    /\ \A k \in 1..Len(outcomes) :
          IF outcomes[k].kind = "response" /\ outcomes[k].status \in 200..299
            THEN /\ k = Len(outcomes)
                 /\ Len(sent) = k
                 /\ dpc = "delivered"
            ELSE k < Len(outcomes) \/ dpc \in {"backoff", "inflight", "failed"}
    /\ dpc = "delivered" =>
          /\ Len(outcomes) >= 1
          /\ outcomes[Len(outcomes)].status \in 200..299

\* a non-2xx response, then a 2xx response with a body that is not JSON
C9_Witness ==
    /\ dpc = "delivered"
    /\ Len(outcomes) = 2
    /\ outcomes[1].kind = "response" /\ outcomes[1].status = 300
    /\ outcomes[2].status = 299 /\ outcomes[2].body = "not json"

\* the signature header of a request, when it is well formed for that request
SignatureMatchesBody(req) ==
    req.headers[SigHeader] = <<"sha256=", HmacSha256Hex(secret, req.body)>>

\* C10 (as stated): a request carries the signature header iff a secret was
\* supplied, and then the header signs exactly the body of that request.
C10_SignedIffSecretSupplied ==
    \A k \in 1..Len(sent) :
        /\ (SigHeader \in DOMAIN sent[k].headers) <=> (secret # Undefined)
        /\ (SigHeader \in DOMAIN sent[k].headers) => SignatureMatchesBody(sent[k])

\* C10 (amended): a request carries the signature header iff a non-empty
\* secret was supplied, and then its value is "sha256=" followed by the
\* HMAC-SHA-256, under that secret, of exactly the body of that request,
\* which is the serialized payload.
C10_SignedIffSecretNonEmpty ==
    \A k \in 1..Len(sent) :
        /\ (SigHeader \in DOMAIN sent[k].headers) <=> (secret # Undefined /\ secret # "")
        /\ (SigHeader \in DOMAIN sent[k].headers) => SignatureMatchesBody(sent[k])
        /\ sent[k].body = JSONstringify(payload)

\* a signed request was retried
C10_Witness ==
    /\ secret = "test-secret"
    /\ Len(sent) = 2
    /\ SigHeader \in DOMAIN sent[2].headers
    /\ SignatureMatchesBody(sent[2])

(***************************************************************************)
(* SpecReceiver: the webhook receiver (createServer's request handler)     *)
(* handling one request.  The request is one that deliverWebhook built,    *)
(* possibly altered on the way (other method, body replaced, signature     *)
(* header dropped or forged).                                              *)
(***************************************************************************)
\* the secrets main() can hand to createServer: none, or a non-empty string
ReceiverSecrets == {Undefined, "test-secret", "other-secret"}

\* payload.metadata is missing
NoMetadata == -1

\* bodies that may arrive: the serialized payloads, a payload with an empty
\* sprintMarkdown, a payload without metadata, and text that is not JSON
EmptyMarkdownPayload == [sprintMarkdown |-> "", tickets |-> <<"86a1">>, metadata |-> 1]
NoMetadataPayload    == [sprintMarkdown |-> "# Sprint: 2026-02-15", tickets |-> <<"86a1">>, metadata |-> NoMetadata]
NotJson              == <<"not json">>
ArrivingBodies ==
    {JSONstringify(p) : p \in Payloads \cup {EmptyMarkdownPayload, NoMetadataPayload}}
      \cup {NotJson}

\* a signature header value that no key produced
ForgedSignature == <<"sha256=", <<"hmac-sha256", "forged", NotJson>>>>

\* Node presents header names in lower case
LowerCase(name) ==
    CASE name = "X-Sprint-Pilot-Signature" -> "x-sprint-pilot-signature"
      [] name = "Content-Type" -> "content-type"
      [] name = "User-Agent" -> "user-agent"
      [] OTHER -> name

\* req.headers of a request sent with headers h
IncomingHeaders(h) ==
    [n \in {LowerCase(k) : k \in DOMAIN h} |->
        h[CHOOSE k \in DOMAIN h : LowerCase(k) = n]]

\* mutant: the expected value lacks the "sha256=" prefix
verifySignature_NoPrefix(body, signature, sec) ==
    signature = <<"", HmacSha256Hex(sec, body)>>

\* mutant: only the "sha256=" prefix is compared
verifySignature_PrefixOnly(body, signature, sec) ==
    signature[1] = "sha256="

\* verifySignature(payload, signature, secret)
verifySignature(body, signature, sec) ==
    signature = <<"sha256=", HmacSha256Hex(sec, body)>>

\* JSON.parse(body) succeeds
Parses(body) == Len(body) = 7

\* JSON.parse(body), for a body that parses
JSONparse(body) ==
    [sprintMarkdown |-> body[2], tickets |-> body[4], metadata |-> body[6]]

\* mutant: the payload is written whatever its sprintMarkdown
MissingMarkdown_Never(p) == FALSE

\* !payload.sprintMarkdown
MissingMarkdown(p) == p.sprintMarkdown = ""

\* the dates the receiver's clock may show at successive readings
ReceiverDays == <<"2026-02-13", "2026-02-14">>

\* writeSprintFile(markdown, projectRoot) on the given date: the file
\* <date>-sprint.md is created or overwritten
writeSprintFile(markdown, dir, date) ==
    {f \in dir : f.name # <<date, "-sprint.md">>}
      \cup {[name |-> <<date, "-sprint.md">>, content |-> markdown]}

\* What the 'end' handler does with request req under secret sec on the
\* given date when the sprint directory holds file: the response, the
\* operations performed in order, and the sprint directory afterwards.
HandleEnd(req, sec, file, date) ==
    LET hasSig   == "x-sprint-pilot-signature" \in DOMAIN req.headers
        verified == verifySignature(req.body, req.headers["x-sprint-pilot-signature"], sec)
    IN  IF Truthy(sec) /\ ~hasSig
          THEN [resp |-> [status |-> 401, error |-> "Missing signature header"],
                trace |-> <<>>, file |-> file]
        ELSE IF Truthy(sec) /\ ~verified
          THEN [resp |-> [status |-> 401, error |-> "Invalid signature"],
                trace |-> <<"verify-fail">>, file |-> file]
        ELSE LET pre == IF Truthy(sec) THEN <<"verify-ok">> ELSE <<>>
             IN  IF ~Parses(req.body)
                   THEN [resp |-> [status |-> 500, error |-> "Internal server error"],
                         trace |-> pre \o <<"parse-throws">>, file |-> file]
                 ELSE IF MissingMarkdown(JSONparse(req.body))
                   THEN [resp |-> [status |-> 400, error |-> "Missing sprintMarkdown in payload"],
                         trace |-> pre \o <<"parse">>, file |-> file]
                 ELSE IF JSONparse(req.body).metadata = NoMetadata
                   THEN [resp |-> [status |-> 500, error |-> "Internal server error"],
                         trace |-> pre \o <<"parse", "write">>,
                         file |-> writeSprintFile(JSONparse(req.body).sprintMarkdown, file, date)]
                 ELSE [resp |-> [status |-> 200, error |-> ""],
                       trace |-> pre \o <<"parse", "write">>,
                       file |-> writeSprintFile(JSONparse(req.body).sprintMarkdown, file, date)]

InitReceiver ==
    /\ rpc = "listening"
    /\ rsecret \in ReceiverSecrets
    /\ \E p \in Payloads \cup {EmptyMarkdownPayload, NoMetadataPayload},
          sec \in Secrets, m \in {"POST", "OPTIONS", "GET"},
          b \in ArrivingBodies \cup {<<"as sent">>},
          h \in {"as sent", "dropped", "forged"} :
          LET req == Request(p, sec)
              hs  == IF h = "dropped" THEN BaseHeaders
                     ELSE IF h = "forged"
                       THEN [n \in DOMAIN BaseHeaders \cup {SigHeader} |->
                               IF n = SigHeader THEN ForgedSignature ELSE BaseHeaders[n]]
                     ELSE req.headers
          IN  rreq = [method |-> m,
                      headers |-> IncomingHeaders(hs),
                      body |-> IF b = <<"as sent">> THEN req.body ELSE b,
                      signedPayload |-> p,
                      signedSecret |-> sec,
                      headerAsSent |-> (h = "as sent")]
    /\ rresp = NoResponse
    /\ rtrace = <<>>
    /\ rfile = NoFile
    /\ AnalyzerIdle
    /\ StepIdle
    /\ DeliverIdle
    /\ FormatIdle
    /\ FlowIdle
    /\ SourceIdle

\* the request callback: CORS headers, OPTIONS and non-POST are answered at
\* once, a POST waits for its body
RecvRequest ==
    /\ rpc = "listening"
    /\ IF rreq.method = "OPTIONS"
         THEN rpc' = "responded" /\ rresp' = [status |-> 200, error |-> ""]
         ELSE IF rreq.method # "POST"
           THEN rpc' = "responded" /\ rresp' = [status |-> 405, error |-> "Method not allowed"]
           ELSE rpc' = "body" /\ rresp' = rresp
    /\ UNCHANGED <<rsecret, rreq, rtrace, rfile,
                   analyzerVars, stepVars, deliverVars, formatVars, sourceVars, flowVars>>

\* the clock does not go back: no file of the directory bears a later date
NotBefore(d, dir) ==
    \A f \in dir : \E e \in 1..d : f.name = <<ReceiverDays[e], "-sprint.md">>

\* req.on('end'): verify, parse, write, respond; the handler's operations
\* are added to the log of the server
RecvEnd ==
    /\ rpc = "body"
    /\ \E d \in 1..Len(ReceiverDays) :
          /\ NotBefore(d, rfile)
          /\ rresp' = HandleEnd(rreq, rsecret, rfile, ReceiverDays[d]).resp
          /\ rtrace' = rtrace \o HandleEnd(rreq, rsecret, rfile, ReceiverDays[d]).trace
          /\ rfile' = HandleEnd(rreq, rsecret, rfile, ReceiverDays[d]).file
    /\ rpc' = "responded"
    /\ UNCHANGED <<rsecret, rreq,
                   analyzerVars, stepVars, deliverVars, formatVars, sourceVars, flowVars>>

\* req.on('error')
RecvError ==
    /\ rpc = "body"
    /\ rresp' = [status |-> 500, error |-> "Request processing error"]
    /\ rpc' = "responded"
    /\ UNCHANGED <<rsecret, rreq, rtrace, rfile,
                   analyzerVars, stepVars, deliverVars, formatVars, sourceVars, flowVars>>

NextReceiver == RecvRequest \/ RecvEnd \/ RecvError

SpecReceiver == InitReceiver /\ [][NextReceiver]_vars

\* the signature header the request carries is the one deliverWebhook
\* computed for (signedPayload, signedSecret)
CarriesSenderSignature ==
    /\ rreq.headerAsSent
    /\ Truthy(rreq.signedSecret)

\* the 'end' handler ran verifySignature and it returned true
VerificationPassed == rtrace # <<>> /\ rtrace[1] = "verify-ok"

\* the 'end' handler ran on a POST under a configured secret
VerifiedPost ==
    /\ rpc = "responded"
    /\ rreq.method = "POST"
    /\ rresp.error # "Request processing error"
    /\ Truthy(rsecret)

\* C11: a request that carries the signature T deliverWebhook made for
\* payload P under secret S passes the receiver's verifySignature exactly when
\* the receiver's secret is S and the received body is the serialized P.
C11_SignatureRoundTrip ==
    (VerifiedPost /\ CarriesSenderSignature) =>
        (VerificationPassed <=>
            (rsecret = rreq.signedSecret /\ rreq.body = JSONstringify(rreq.signedPayload)))

\* P signed with S, received unaltered by a receiver holding S: accepted
C11_Witness ==
    /\ VerifiedPost /\ CarriesSenderSignature
    /\ rsecret = rreq.signedSecret
    /\ rreq.body = JSONstringify(rreq.signedPayload)
    /\ VerificationPassed
    /\ rresp.status = 200

\* the request carries no signature header, or one that is not the HMAC of
\* the received body under the receiver's secret
BadOrMissingSignature ==
    \/ "x-sprint-pilot-signature" \notin DOMAIN rreq.headers
    \/ rreq.headers["x-sprint-pilot-signature"] # <<"sha256=", HmacSha256Hex(rsecret, rreq.body)>>

\* C12: under a configured secret, a POST without signature header or with a
\* header that does not match the received body is answered 401, and nothing
\* is parsed or written for it; whenever a body is parsed under a configured
\* secret, the verification came first.
C12_UnsignedRejectedBeforeParse ==
    /\ (VerifiedPost /\ BadOrMissingSignature) =>
          /\ rresp.status = 401
          /\ \A k \in 1..Len(rtrace) : rtrace[k] \notin {"parse", "parse-throws", "write"}
          /\ rfile = NoFile
    /\ VerifiedPost =>
          \A k \in 1..Len(rtrace) :
              rtrace[k] \in {"parse", "parse-throws", "write"} => (k > 1 /\ rtrace[1] = "verify-ok")

\* a well-formed body signed under another secret is rejected
C12_Witness ==
    /\ VerifiedPost
    /\ CarriesSenderSignature
    /\ rreq.signedSecret # rsecret
    /\ rreq.body = JSONstringify(rreq.signedPayload)
    /\ rresp = [status |-> 401, error |-> "Invalid signature"]
    /\ rfile = NoFile

(***************************************************************************)
(* SpecFormat: sprintFormatterTool.execute({ tickets, metadata })          *)
(***************************************************************************)
\* ticket.priority is null or absent
NoPriority == [priority |-> Undefined]

\* priority labels: ClickUp's four (in the cases they may arrive in) and one
\* the formatter does not know
PriorityLabels == {"urgent", "High", "normal", "low", "critical"}
Priorities     == {[priority |-> l] : l \in PriorityLabels} \cup {NoPriority}

TicketNames == <<"Login fails", "Add export", "Fix typo", "Dark mode", "Slow query",
                 "Upgrade deps", "New dashboard", "Broken link", "Add tests", "Refactor auth">>

\* the k-th fetched task, with priority pr
TaskWith(k, pr) ==
    [id |-> TicketIds[k], name |-> TicketNames[k], status |-> [status |-> "open"],
     priority |-> pr, description |-> "", assignees |-> <<>>, tags |-> <<>>,
     due_date |-> "", custom_fields |-> <<>>, url |-> ""]

\* an Analysis with the given score and complexity
AnalysisWith(score, tag) ==
    [qualityScore |-> score,
     qualityGaps |-> IF score < 4 THEN <<"No acceptance criteria">> ELSE <<>>,
     affectedFiles |-> IF tag = "fix" THEN <<"app/page.tsx">> ELSE <<>>,
     complexityTag |-> tag,
     suggestedApproach |-> "Implement as described"]

\* the (score, complexity) pairs the formatter is exercised with
FormatAnalyses ==
    {AnalysisWith(5, "fix"), AnalysisWith(5, "feature"),
     AnalysisWith(2, "fix"), AnalysisWith(4, "feature")}

\* String(n) for the numbers that are rendered
NumStr(n) ==
    <<"0", "1", "2", "3", "4", "5", "6", "7", "8", "9", "10", "11", "12">>[n + 1]

\* String.prototype.toLowerCase on a priority label
ToLowerCase(label) ==
    CASE label = "High" -> "high"
      [] OTHER -> label

PRIORITY_ORDER == [urgent |-> 1, high |-> 2, normal |-> 3, low |-> 4]

\* mutant: the label is looked up as it arrives
getPriorityOrder_NoNormalize(priority) ==
    IF ~Truthy(priority) THEN 5
    ELSE IF priority \in DOMAIN PRIORITY_ORDER THEN PRIORITY_ORDER[priority] ELSE 5

\* getPriorityOrder(priority?)
getPriorityOrder(priority) ==
    IF ~Truthy(priority) THEN 5
    ELSE IF ToLowerCase(priority) \in DOMAIN PRIORITY_ORDER
           THEN PRIORITY_ORDER[ToLowerCase(priority)]
           ELSE 5

\* mutant: lower quality first
CompareQuality_Ascending(a, b) == a.analysis.qualityScore - b.analysis.qualityScore

\* b.analysis.qualityScore - a.analysis.qualityScore
CompareQuality(a, b) == b.analysis.qualityScore - a.analysis.qualityScore

\* mutant: features before fixes
CompareComplexity_FeatureFirst(a, b) == IF a.analysis.complexityTag = "fix" THEN 1 ELSE -1

\* a.analysis.complexityTag === 'fix' ? -1 : 1
CompareComplexity(a, b) == IF a.analysis.complexityTag = "fix" THEN -1 ELSE 1

\* the comparator handed to sort
Compare(a, b) ==
    LET priorityA == getPriorityOrder(a.ticket.priority.priority)
        priorityB == getPriorityOrder(b.ticket.priority.priority)
    IN  IF priorityA # priorityB THEN priorityA - priorityB
        ELSE IF a.analysis.qualityScore # b.analysis.qualityScore THEN CompareQuality(a, b)
        ELSE IF a.analysis.complexityTag # b.analysis.complexityTag THEN CompareComplexity(a, b)
        ELSE 0

\* mutant: an element is placed before the elements it compares equal to
RECURSIVE InsertSorted_BeforeEquals(_, _)
InsertSorted_BeforeEquals(x, sorted) ==
    IF sorted = <<>> THEN <<x>>
    ELSE IF Compare(Head(sorted), x) >= 0 THEN <<x>> \o sorted
    ELSE <<Head(sorted)>> \o InsertSorted_BeforeEquals(x, Tail(sorted))

\* Array.prototype.sort is stable: an element goes after every element that
\* does not compare greater
RECURSIVE InsertSorted(_, _)
InsertSorted(x, sorted) ==
    IF sorted = <<>> THEN <<x>>
    ELSE IF Compare(Head(sorted), x) > 0 THEN <<x>> \o sorted
    ELSE <<Head(sorted)>> \o InsertSorted(x, Tail(sorted))

RECURSIVE SortInto(_, _)
SortInto(sorted, rest) ==
    IF rest = <<>> THEN sorted
    ELSE SortInto(InsertSorted(Head(rest), sorted), Tail(rest))

\* sortTickets(tickets): [...tickets].sort(comparator)
sortTickets(tickets) == SortInto(<<>>, tickets)

\* formatQualityScore(score, gaps), as the tokens of the text
RECURSIVE JoinComma(_)
JoinComma(strs) ==
    IF strs = <<>> THEN <<>>
    ELSE IF Len(strs) = 1 THEN <<strs[1]>>
    ELSE <<strs[1], ", ">> \o JoinComma(Tail(strs))

formatQualityScore(score, gaps) ==
    IF Len(gaps) = 0 THEN <<NumStr(score), "/5">>
    ELSE <<NumStr(score), "/5 (missing: ">> \o JoinComma(gaps) \o <<")">>

\* toUpperCase of a complexity tag
ToUpperCase(tag) == IF tag = "fix" THEN "FIX" ELSE "FEATURE"

\* formatTicketMarkdown(ticket, index): the lines of one ticket block
formatTicketMarkdown(item, index) ==
    LET t == item.ticket
        a == item.analysis
    IN  <<  <<"### ", NumStr(index + 1), ". [", ToUpperCase(a.complexityTag), "] ", t.name>>,
            <<"- **ClickUp ID**: ", t.id>>,
            <<"- **Status**: ", t.status.status>>,
            <<"- **Quality**: ">> \o formatQualityScore(a.qualityScore, a.qualityGaps),
            <<"- **Complexity**: ", a.complexityTag>> >>
        \o (IF t.priority # NoPriority THEN << <<"- **Priority**: ", t.priority.priority>> >> ELSE <<>>)
        \o (IF Len(t.assignees) > 0 THEN << <<"- **Assignees**: ">> \o JoinComma(t.assignees) >> ELSE <<>>)
        \o (IF Len(t.tags) > 0 THEN << <<"- **Tags**: ">> \o JoinComma(t.tags) >> ELSE <<>>)
        \o (IF t.due_date # "" THEN << <<"- **Due Date**: ", t.due_date>> >> ELSE <<>>)
        \o (IF Len(a.affectedFiles) > 0
              THEN << <<"- **Affected files**:">> >>
                     \o [k \in 1..Len(a.affectedFiles) |-> <<"  - ", a.affectedFiles[k]>>]  \* (the backquotes around the path are left out)
              ELSE << <<"- **Affected files**: (none identified)">> >>)
        \o << <<"- **Suggested approach**: ", a.suggestedApproach>>,
              <<"- **Agent**: ", IF a.complexityTag = "fix" THEN "/fix" ELSE "/agent">> >>
        \o (IF t.description # "" THEN << <<"">>, <<"**Description:**">>, <<t.description>> >> ELSE <<>>)
        \o (IF t.url # "" THEN << <<"">>, <<"[View in ClickUp](", t.url, ")">> >> ELSE <<>>)

\* number of tickets with the given complexity
CountTag(tickets, tag) ==
    Cardinality({k \in 1..Len(tickets) : tickets[k].analysis.complexityTag = tag})

RECURSIVE SumQuality(_)
SumQuality(tickets) ==
    IF tickets = <<>> THEN 0
    ELSE Head(tickets).analysis.qualityScore + SumQuality(Tail(tickets))

\* mutant: the second decimal is cut off
ToFixed1_Truncate(sum, n) ==
    LET tenths == (10 * sum) \div n
    IN  <<NumStr(tenths \div 10), ".", NumStr(tenths % 10)>>

\* (sum / n).toFixed(1): the nearest number with one decimal, the larger one
\* on a tie
ToFixed1(sum, n) ==
    LET tenths == (20 * sum + n) \div (2 * n)
    IN  <<NumStr(tenths \div 10), ".", NumStr(tenths % 10)>>

\* avgQuality
AvgQuality(tickets) ==
    IF Len(tickets) > 0 THEN ToFixed1(SumQuality(tickets), Len(tickets)) ELSE <<"0">>

\* the metadata handed to the formatter for n tickets
FormatMetadata(n) ==
    [syncTimestamp |-> "2026-02-13T09:30:00.000Z", ticketCount |-> n,
     listId |-> "901", listName |-> Undefined]

\* the calendar date of an ISO timestamp (the text before its T)
DatePart(ts) ==
    CASE ts = "2026-02-13T09:30:00.000Z" -> "2026-02-13"
      [] ts = "2026-02-13T23:59:59.999Z" -> "2026-02-13"
      [] ts = "2026-02-14T00:00:00.000Z" -> "2026-02-14"
      [] OTHER -> "1970-01-01"

RECURSIVE Flatten(_)
Flatten(blocks) ==
    IF blocks = <<>> THEN <<>> ELSE Head(blocks) \o Flatten(Tail(blocks))

\* mutant: an empty list renders nothing under the tickets heading
TicketsSection_NoNotice(sortedTickets) ==
    Flatten([k \in 1..Len(sortedTickets) |->
                formatTicketMarkdown(sortedTickets[k], k - 1)
                  \o << <<"">>, <<"---">>, <<"">> >>])

\* the lines under the tickets heading: the notice for an empty list, else
\* one block per ticket
TicketsSection(sortedTickets) ==
    IF Len(sortedTickets) = 0
      THEN << <<"No tickets found.">> >>
      ELSE Flatten([k \in 1..Len(sortedTickets) |->
                      formatTicketMarkdown(sortedTickets[k], k - 1)
                        \o << <<"">>, <<"---">>, <<"">> >>])

\* the markdown of sprintFormatterTool.execute, as its sequence of lines
FormatMarkdown(tickets, metadata) ==
    LET sortedTickets == sortTickets(tickets)
        listName == IF Truthy(metadata.listName) THEN <<metadata.listName>>
                    ELSE <<"List ", metadata.listId>>
    IN  <<  <<"# Sprint: ", DatePart(metadata.syncTimestamp)>>,
            <<"">>,
            <<"Synced from ClickUp List ", "'">> \o listName \o <<"'", " at ", metadata.syncTimestamp>>,
            <<"Total tickets: ", NumStr(metadata.ticketCount)>>,
            <<"">>,
            <<"**Summary:**">>,
            <<"- Fixes: ", NumStr(CountTag(tickets, "fix"))>>,
            <<"- Features: ", NumStr(CountTag(tickets, "feature"))>>,
            <<"- Average Quality Score: ">> \o AvgQuality(tickets) \o <<"/5">>,
            <<"">>,
            <<"## Tickets (ordered by priority)">>,
            <<"">> >>
        \o TicketsSection(sortedTickets)

InitFormat ==
    /\ fpc = "call"
    /\ \E n \in 0..MaxItems :
          \E prs \in [1..n -> Priorities], ans \in [1..n -> FormatAnalyses] :
              ftickets = [k \in 1..n |-> [ticket |-> TaskWith(k, prs[k]), analysis |-> ans[k]]]
    /\ fmarkdown = <<>>
    /\ AnalyzerIdle
    /\ StepIdle
    /\ DeliverIdle
    /\ ReceiverIdle
    /\ FlowIdle
    /\ SourceIdle

\* mutant: sortTickets sorts the array it is given
InputAfterSort_InPlace(tickets) == sortTickets(tickets)

\* the caller's array after sortTickets: [...tickets] sorts a copy
InputAfterSort(tickets) == tickets

\* execute runs to its return
FormatExecute ==
    /\ fpc = "call"
    /\ fmarkdown' = FormatMarkdown(ftickets, FormatMetadata(Len(ftickets)))
    /\ ftickets' = InputAfterSort(ftickets)
    /\ fpc' = "returned"
    /\ UNCHANGED <<analyzerVars, stepVars, deliverVars, recvVars, flowVars, sourceVars>>

NextFormat == FormatExecute

SpecFormat == InitFormat /\ [][NextFormat]_vars

\* ---- reading a rendered report ----
IsIdLine(line) == line[1] = "- **ClickUp ID**: "

\* the ticket ids of a report, in the order their blocks are rendered
RenderedIds(md) ==
    LET idLines == SelectSeq(md, IsIdLine)
    IN  [k \in 1..Len(idLines) |-> idLines[k][2]]

\* the ticket with this id is rendered in the report
IsRendered(md, id) == \E k \in 1..Len(RenderedIds(md)) : RenderedIds(md)[k] = id

\* where the block of the ticket with this id stands in the report
RenderedAt(md, id) == CHOOSE k \in 1..Len(RenderedIds(md)) : RenderedIds(md)[k] = id

\* item a of the input is rendered, and before item b
RendersBefore(md, tickets, a, b) ==
    /\ IsRendered(md, tickets[a].ticket.id)
    /\ IsRendered(md, tickets[b].ticket.id)
    /\ RenderedAt(md, tickets[a].ticket.id) < RenderedAt(md, tickets[b].ticket.id)

\* the priority rank of an item: Urgent(1) < High(2) < Normal(3) < Low(4) <
\* unset or unrecognized(5)
RankOf(item) ==
    CASE item.ticket.priority.priority = "urgent" -> 1
      [] item.ticket.priority.priority = "High" -> 2
      [] item.ticket.priority.priority = "normal" -> 3
      [] item.ticket.priority.priority = "low" -> 4
      [] OTHER -> 5

IsAverageLine(line) == line[1] = "- Average Quality Score: "

\* the average line of a report
AverageLine(md) == SelectSeq(md, IsAverageLine)[1]

\* the digit a rendered digit token stands for
DigitOf(str) == CHOOSE d \in 0..9 : NumStr(d) = str

\* C20: the summary reports the mean of the quality scores rounded to one
\* decimal place (the rendered value is within 0.05 of the mean), 0 for an
\* empty list, and 3.7 for the scores 4, 2, 5.
C20_AverageQuality ==
    fpc = "returned" =>
        LET line == AverageLine(fmarkdown)
            n    == Len(ftickets)
            sum  == SumSeq([k \in 1..n |-> ftickets[k].analysis.qualityScore])
        IN  /\ Len(SelectSeq(fmarkdown, IsAverageLine)) = 1
            /\ n = 0 => line = <<"- Average Quality Score: ", "0", "/5">>
            /\ n > 0 =>
                  /\ Len(line) = 5 /\ line[3] = "." /\ line[5] = "/5"
                  /\ LET tenths == 10 * DigitOf(line[2]) + DigitOf(line[4])
                     IN  /\ 2 * n * tenths - 20 * sum <= n
                         /\ 20 * sum - 2 * n * tenths <= n
            /\ (n = 3 /\ [k \in 1..n |-> ftickets[k].analysis.qualityScore] = <<4, 2, 5>>) =>
                  line = <<"- Average Quality Score: ", "3", ".", "7", "/5">>

\* the scores 4, 2, 5 are reported as 3.7
C20_Witness ==
    /\ fpc = "returned"
    /\ [k \in 1..Len(ftickets) |-> ftickets[k].analysis.qualityScore] = <<4, 2, 5>>
    /\ AverageLine(fmarkdown) = <<"- Average Quality Score: ", "3", ".", "7", "/5">>

\* a line that opens a ticket block
IsHeadingLine(line) == line[1] = "### "

\* the line that stands for an empty ticket list
IsNoTicketsLine(line) == line = <<"No tickets found.">>

JUndef  == [t |-> "undefined"]
JNull   == [t |-> "null"]
JStr(x) == [t |-> "string", v |-> x]
JNum(x) == [t |-> "number", v |-> x]
JObj(x) == [t |-> "object", v |-> x]
JArr(x) == [t |-> "array", v |-> x]

\* JavaScript truthiness of a JSON value
JTruthy(j) ==
    CASE j.t = "undefined" -> FALSE
      [] j.t = "null"      -> FALSE
      [] j.t = "string"    -> j.v # ""
      [] j.t = "number"    -> j.v # 0
      [] OTHER             -> TRUE

\* String(x) of a JSON scalar
JString(j) ==
    CASE j.t = "undefined" -> "undefined"
      [] j.t = "null"      -> "null"
      [] j.t = "string"    -> j.v
      [] j.t = "number"    -> NumStr(j.v)
      [] OTHER             -> "[object Object]"

\* x || d
JOr(j, d) == IF JTruthy(j) THEN j ELSE d

\* z.string() / z.string().optional() / z.string().nullable().optional()
IsStr(j)            == j.t = "string"
IsOptStr(j)         == j.t \in {"string", "undefined"}
IsOptNullableStr(j) == j.t \in {"string", "null", "undefined"}
\* z.array(...).optional(); the elements of the arrays modelled are valid
IsOptArr(j)         == j.t \in {"array", "undefined"}

\* status: z.object({status: z.string(), color: z.string().optional()})
IsStatus(j) == j.t = "object" /\ IsStr(j.v.status)

\* priority: z.object({id, priority, color}).nullable().optional()
IsOptPriority(j) ==
    \/ j.t \in {"null", "undefined"}
    \/ j.t = "object" /\ IsStr(j.v.id) /\ IsStr(j.v.priority) /\ IsStr(j.v.color)

\* ClickUpTaskSchema.parse(task) does not throw
SchemaAccepts(task) ==
    /\ task.t = "object"
    /\ IsStr(task.v.id)
    /\ IsStr(task.v.name)
    /\ IsOptNullableStr(task.v.description)
    /\ IsStatus(task.v.status)
    /\ IsOptArr(task.v.assignees)
    /\ IsOptPriority(task.v.priority)
    /\ IsOptArr(task.v.tags)
    /\ IsOptNullableStr(task.v.due_date)
    /\ IsOptArr(task.v.custom_fields)
    /\ IsOptStr(task.v.url)

\* reading a property of the raw item throws (the item is null)
PropertyReadThrows(task) == task.t = "null"

\* (t.status)?.status || 'unknown'
CoerceStatus(j) ==
    JObj([status |-> IF j.t = "object" THEN JOr(j.v.status, JStr("unknown"))
                     ELSE JStr("unknown")])

\* mutant: the raw id is kept as it is
CoerceId_Raw(variant, j) == j

\* id: String(t.id) in the workflow, task.id in the tool
CoerceId(variant, j) == IF variant = "workflow" THEN JStr(JString(j)) ELSE j

\* name: String(t.name || 'Untitled Task') in the workflow,
\* task.name || 'Untitled Task' in the tool
CoerceName(variant, j) ==
    IF variant = "workflow" THEN JStr(JString(JOr(j, JStr("Untitled Task"))))
    ELSE JOr(j, JStr("Untitled Task"))

\* mutant: a missing collection stays missing
CoerceArr_Keep(j) == j

\* t.assignees || [], t.tags || [], t.custom_fields || []
CoerceArr(j) == JOr(j, JArr(<<>>))

\* the object the catch branch returns for a raw item that is not null
Coerce(variant, task) ==
    LET t == task.v
    IN  JObj([id            |-> CoerceId(variant, t.id),
              name          |-> CoerceName(variant, t.name),
              description   |-> JOr(t.description, JNull),
              status        |-> CoerceStatus(t.status),
              assignees     |-> CoerceArr(t.assignees),
              priority      |-> JOr(t.priority, JNull),
              tags          |-> CoerceArr(t.tags),
              due_date      |-> JOr(t.due_date, JNull),
              custom_fields |-> CoerceArr(t.custom_fields),
              url           |-> JOr(t.url, JStr(""))])

\* the callback of data.tasks.map: the parsed item, or the coerced one
ParseOrCoerce(variant, task) ==
    IF SchemaAccepts(task) THEN task ELSE Coerce(variant, task)

\* data.tasks.map(...): every raw item becomes one task, in order
MapTasks(variant, items) == [k \in 1..Len(items) |-> ParseOrCoerce(variant, items[k])]

\* ---- the errors the source client throws ----
\* getEnvVar(name) for a variable that is not set
ConfigError(name) ==
    [name |-> "Error", message |-> <<"Missing required environment variable: ", name>>]

StatusStr(status) ==
    CASE status = 401 -> "401" [] status = 404 -> "404" [] status = 429 -> "429"
      [] status = 500 -> "500" [] OTHER -> "200"

StatusText(status) ==
    CASE status = 401 -> "Unauthorized" [] status = 404 -> "Not Found"
      [] status = 429 -> "Too Many Requests" [] status = 500 -> "Internal Server Error"
      [] OTHER -> "OK"

UpstreamError(status) ==
    [name |-> "Error",
     message |-> <<"ClickUp API error: ", StatusStr(status), " ", StatusText(status)>>]

RateLimited ==
    [name |-> "Error",
     message |-> <<"ClickUp API rate limit exceeded. Please try again later.">>]

AuthError ==
    [name |-> "Error",
     message |-> <<"Invalid ClickUp API token. Please check your CLICKUP_API_TOKEN environment variable.">>]

\* the error thrown for a response that is not ok: the tool tells 429 and
\* 401 apart, the workflow's copy has the generic branch only
StatusError(variant, status) ==
    IF variant = "tool" /\ status = 429 THEN RateLimited
    ELSE IF variant = "tool" /\ status = 401 THEN AuthError
    ELSE UpstreamError(status)

\* what fetch rejects with: the connection failed / the signal was aborted
NetworkError == [name |-> "TypeError", message |-> <<"fetch failed">>]
AbortError   == [name |-> "AbortError", message |-> <<"This operation was aborted">>]
\* response.json() of a body that is not JSON
BodySyntaxError == [name |-> "SyntaxError", message |-> <<"Unexpected token in JSON">>]
\* t.id of a raw item that is null
NullItemError ==
    [name |-> "TypeError", message |-> <<"Cannot read properties of null (reading 'id')">>]

TimeoutError ==
    [name |-> "Error", message |-> <<"ClickUp API request timed out after 30 seconds">>]

\* mutant: the catch block wraps whatever it caught in one generic error
Rethrow_Generic(variant, err) ==
    [name |-> "Error", message |-> <<"Unknown error occurred while fetching ClickUp tasks">>]

\* the error that leaves the call: the tool's catch block turns an AbortError
\* into the timeout error and rethrows any other Error; the workflow's copy
\* has no catch block
Rethrow(variant, err) ==
    IF variant = "tool" /\ err.name = "AbortError" THEN TimeoutError ELSE err

\* mutant: a rate-limited call is made again
AfterStatusError_RetryRateLimited(variant, status) ==
    IF status = 429 THEN "call" ELSE "threw"

\* the throw of the not-ok branch leaves the call: nothing is retried
AfterStatusError(variant, status) == "threw"

\* response.ok
SourceResponseOk(status) == status >= 200 /\ status <= 299

\* ---- the call's inputs ----
SourceEnvs ==
    {[listId |-> l, CLICKUP_LIST_ID |-> e, CLICKUP_API_TOKEN |-> t] :
        l \in {Undefined, "", "901"}, e \in {Undefined, "900"}, t \in {Undefined, "pk_token"}}

\* mutant: the configured default is used whatever the caller passed
ResolvedListId_AlwaysDefault(env) == env.CLICKUP_LIST_ID

\* listId || <the configured default>
ResolvedListId(env) ==
    IF Truthy(env.listId) THEN env.listId ELSE env.CLICKUP_LIST_ID

\* listId || getEnvVar('CLICKUP_LIST_ID'), then getEnvVar('CLICKUP_API_TOKEN')
ResolveConfig(env) ==
    IF ~Truthy(env.listId) /\ ~Truthy(env.CLICKUP_LIST_ID)
      THEN [ok |-> FALSE, listId |-> "", token |-> "", error |-> ConfigError("CLICKUP_LIST_ID")]
    ELSE IF ~Truthy(env.CLICKUP_API_TOKEN)
      THEN [ok |-> FALSE, listId |-> "", token |-> "", error |-> ConfigError("CLICKUP_API_TOKEN")]
    ELSE [ok |-> TRUE,
          listId |-> ResolvedListId(env),
          token |-> env.CLICKUP_API_TOKEN,
          error |-> NoSourceError]

\* the GET request of the call
SourceRequest(listId, token) ==
    [method |-> "GET",
     url |-> <<"https://api.clickup.com/api/v2", "/list/", listId, "/task?", "include_subtasks=true">>,
     headers |-> [Authorization |-> token, ContentType |-> "application/json"]]

\* the k-th raw item of a response, well-formed
RawTask(k, pr) ==
    JObj([id            |-> JStr(TicketIds[k]),
          name          |-> JStr(TicketNames[k]),
          description   |-> JStr(""),
          status        |-> JObj([status |-> JStr("open")]),
          assignees     |-> JArr(<<>>),
          priority      |-> IF pr = NoPriority THEN JNull
                            ELSE JObj([id |-> JStr("1"), priority |-> JStr(pr.priority),
                                       color |-> JStr("#f50000")]),
          tags          |-> JArr(<<>>),
          due_date      |-> JStr(""),
          custom_fields |-> JArr(<<>>),
          url           |-> JStr("")])

\* a raw item with no property at all
EmptyRawObject ==
    JObj([id |-> JUndef, name |-> JUndef, description |-> JUndef, status |-> JUndef,
          assignees |-> JUndef, priority |-> JUndef, tags |-> JUndef, due_date |-> JUndef,
          custom_fields |-> JUndef, url |-> JUndef])

\* the shapes the k-th raw item of a response may have
RawVariants(k) ==
    LET b == RawTask(k, [priority |-> "urgent"]).v
    IN  { JObj(b),
          JObj([b EXCEPT !.assignees = JUndef, !.tags = JUndef, !.custom_fields = JUndef]),
          JObj([b EXCEPT !.id = JNum(k)]),
          JObj([b EXCEPT !.id = JNum(k), !.assignees = JUndef, !.tags = JNull,
                         !.custom_fields = JUndef]),
          JObj([b EXCEPT !.name = JUndef]),
          JObj([b EXCEPT !.status = JUndef]),
          JObj([b EXCEPT !.status = JObj([status |-> JUndef])]),
          EmptyRawObject,
          JNull }

RawLists ==
    UNION {{q \in [1..n -> UNION {RawVariants(k) : k \in 1..n}] :
                \A k \in 1..n : q[k] \in RawVariants(k)} : n \in 0..MaxRaw}

SourceStatuses == {401, 404, 429, 500}

\* how the task source may behave
Upstreams ==
    {[kind |-> "responds", status |-> 200, items |-> q] : q \in RawLists}
    \cup {[kind |-> "responds", status |-> st, items |-> <<>>] : st \in SourceStatuses}
    \cup {[kind |-> "garbage", status |-> 200, items |-> <<>>],
          [kind |-> "unreachable", status |-> 0, items |-> <<>>]}

InitSource ==
    /\ spc = "call"
    /\ svariant \in {"workflow", "tool"}
    /\ senv \in SourceEnvs
    /\ supstream \in Upstreams
    /\ srequests = <<>>
    /\ stimer = "unset"
    /\ sresult = NoFetchResult
    /\ serror = NoSourceError
    /\ AnalyzerIdle
    /\ StepIdle
    /\ DeliverIdle
    /\ ReceiverIdle
    /\ FormatIdle
    /\ FlowIdle

otherThanSource == <<analyzerVars, stepVars, deliverVars, recvVars, formatVars, flowVars>>

\* the call up to its await of fetch: the configuration is resolved, the
\* timer armed and the request sent
SourceCall ==
    /\ spc = "call"
    /\ LET cfg == ResolveConfig(senv)
       IN  IF cfg.ok
             THEN /\ srequests' = Append(srequests, SourceRequest(cfg.listId, cfg.token))
                  /\ stimer' = "armed"
                  /\ spc' = "fetch"
                  /\ UNCHANGED serror
             ELSE /\ serror' = cfg.error
                  /\ spc' = "threw"
                  /\ UNCHANGED <<srequests, stimer>>
    /\ UNCHANGED <<svariant, senv, supstream, sresult, otherThanSource>>

\* the response arrives: the timer is cleared, a response that is not ok
\* throws
SourceResponse ==
    /\ spc = "fetch"
    /\ supstream.kind \in {"responds", "garbage"}
    /\ stimer' = "cleared"
    /\ IF SourceResponseOk(supstream.status)
         THEN spc' = "body" /\ UNCHANGED serror
         ELSE /\ serror' = Rethrow(svariant, StatusError(svariant, supstream.status))
              /\ spc' = AfterStatusError(svariant, supstream.status)
    /\ UNCHANGED <<svariant, senv, supstream, srequests, sresult, otherThanSource>>

\* the task source cannot be reached: fetch rejects
SourceUnreachable ==
    /\ spc = "fetch"
    /\ supstream.kind = "unreachable"
    /\ serror' = Rethrow(svariant, NetworkError)
    /\ spc' = "threw"
    /\ UNCHANGED <<svariant, senv, supstream, srequests, stimer, sresult, otherThanSource>>

\* 30 seconds pass before the response: the timer aborts the request
SourceTimeout ==
    /\ spc = "fetch"
    /\ stimer = "armed"
    /\ stimer' = "fired"
    /\ serror' = Rethrow(svariant, AbortError)
    /\ spc' = "threw"
    /\ UNCHANGED <<svariant, senv, supstream, srequests, sresult, otherThanSource>>

\* the body arrives and is parsed; every raw item is mapped
SourceBody ==
    /\ spc = "body"
    /\ IF supstream.kind = "garbage"
         THEN /\ serror' = Rethrow(svariant, BodySyntaxError)
              /\ spc' = "threw"
              /\ UNCHANGED sresult
       ELSE IF \E k \in 1..Len(supstream.items) : PropertyReadThrows(supstream.items[k])
         THEN /\ serror' = Rethrow(svariant, NullItemError)
              /\ spc' = "threw"
              /\ UNCHANGED sresult
       ELSE /\ sresult' = [tasks |-> MapTasks(svariant, supstream.items),
                           listId |-> ResolveConfig(senv).listId]
            /\ spc' = "returned"
            /\ UNCHANGED serror
    /\ UNCHANGED <<svariant, senv, supstream, srequests, stimer, otherThanSource>>

NextSource ==
    \/ SourceCall
    \/ SourceResponse
    \/ SourceUnreachable
    \/ SourceTimeout
    \/ SourceBody

SpecSource == InitSource /\ [][NextSource]_vars

\* the call ended with the error of a response that was not ok
StatusFailure ==
    /\ spc = "threw" /\ stimer = "cleared"
    /\ supstream.kind = "responds" /\ ~SourceResponseOk(supstream.status)

\* C22: an upstream HTTP failure is reported as one of three outcomes that
\* can be told apart, in the workflow's fetch and in the clickup-sync tool
\* alike: 401 as the auth error, 429 as the rate-limit error, any other
\* status that is not 2xx as the generic upstream error carrying the status.
C22_ThreeStatusOutcomes ==
    StatusFailure =>
        CASE supstream.status = 401 -> serror = AuthError
          [] supstream.status = 429 -> serror = RateLimited
          [] OTHER -> /\ serror = UpstreamError(supstream.status)
                      /\ serror.message[2] = StatusStr(supstream.status)

\* the errors a call can end with when its request did not time out
NonTimeoutErrors ==
    {NetworkError, BodySyntaxError, NullItemError, AuthError, RateLimited,
     ConfigError("CLICKUP_LIST_ID"), ConfigError("CLICKUP_API_TOKEN")}
    \cup {UpstreamError(st) : st \in SourceStatuses}

SourceDone == spc \in {"returned", "threw"}

\* C24 as stated: every call issues exactly one request to the task source.
C24_ExactlyOneRequest == SourceDone => Len(srequests) = 1

\* C24 (amended): a call issues at most one request to the task source,
\* exactly one unless the list id or the API token is missing, in which case
\* none; after a failure, HTTP 429 included, nothing more is sent and the
\* error is what the caller gets.
C24_AtMostOneRequest ==
    /\ [](/\ Len(srequests) <= 1
          /\ SourceDone => (Len(srequests) = 0 <=> ~ResolveConfig(senv).ok)
          /\ spc = "threw" => serror # NoSourceError
          /\ spc = "returned" => serror = NoSourceError)
    /\ [][spc = "threw" => (spc' = "threw" /\ srequests' = srequests /\ serror' = serror)]_vars

\* a call that was answered 429 has ended with the error after one request
C24_Witness ==
    /\ spc = "threw" /\ supstream.status = 429 /\ stimer = "cleared"
    /\ Len(srequests) = 1 /\ serror # NoSourceError

\* the call got a 2xx response with a tasks array and is over
GotTasksArray ==
    /\ SourceDone /\ stimer = "cleared"
    /\ supstream.kind = "responds" /\ SourceResponseOk(supstream.status)

\* C25: for a 2xx response whose tasks array has n raw items, whichever of
\* them fail the strict validation and however they fail it, the call
\* returns exactly n tasks in the order of the raw items: a malformed item
\* neither aborts the fetch nor is dropped.
C25_MalformedItemsNeverAbort ==
    GotTasksArray =>
        /\ spc = "returned"
        /\ Len(sresult.tasks) = Len(supstream.items)
        /\ \A k \in 1..Len(supstream.items) :
              IF SchemaAccepts(supstream.items[k])
                THEN sresult.tasks[k] = supstream.items[k]
                ELSE sresult.tasks[k].v.url = JOr(supstream.items[k].v.url, JStr(""))

\* the raw item at k failed the strict validation and was coerced
CoercedAt(k) ==
    /\ spc = "returned" /\ k \in 1..Len(supstream.items)
    /\ ~SchemaAccepts(supstream.items[k])

\* C26: a raw item that fails the strict validation becomes a task whose id
\* is the raw id as a string, whose name is 'Untitled Task' when the name is
\* missing, whose status.status is 'unknown' when the status is missing and
\* whose assignees, tags and custom fields are empty when missing, in the
\* workflow's fetch and in the clickup-sync tool alike.
C26_CoercedItemShape ==
    \A k \in 1..MaxRaw + 1 :
        CoercedAt(k) =>
            LET raw == supstream.items[k].v
                out == sresult.tasks[k].v
            IN  /\ out.id = JStr(JString(raw.id))
                /\ raw.name.t = "undefined" => out.name = JStr("Untitled Task")
                /\ raw.status.t = "undefined" => out.status = JObj([status |-> JStr("unknown")])
                /\ raw.assignees.t = "undefined" => out.assignees = JArr(<<>>)
                /\ raw.tags.t = "undefined" => out.tags = JArr(<<>>)
                /\ raw.custom_fields.t = "undefined" => out.custom_fields = JArr(<<>>)

\* the list id in the URL of a request
ListIdOf(request) == request.url[3]

\* C31 as stated: the call uses the caller's listId whenever one is given.
C31_CallerListIdWhenGiven ==
    (spc = "returned" /\ senv.listId # Undefined) => sresult.listId = senv.listId

\* C31 (amended): the call uses the caller's listId when it is given and not
\* empty and the configured default otherwise, requests that list and
\* returns its id; when neither is available the call fails with a
\* configuration error before any request is sent, and is not tried again.
C31_ResolvedListId ==
    /\ [](/\ \A k \in 1..Len(srequests) :
                ListIdOf(srequests[k]) =
                    (IF senv.listId \notin {Undefined, ""} THEN senv.listId
                     ELSE senv.CLICKUP_LIST_ID)
          /\ spc = "returned" =>
                /\ sresult.listId = ListIdOf(srequests[1])
                /\ sresult.listId # Undefined
          /\ (spc # "call" /\ senv.listId \in {Undefined, ""}
                /\ senv.CLICKUP_LIST_ID = Undefined) =>
                /\ spc = "threw"
                /\ serror = ConfigError("CLICKUP_LIST_ID")
                /\ srequests = <<>>)
    /\ [][(spc = "threw" /\ srequests = <<>>) => (spc' = "threw" /\ srequests' = <<>>)]_vars

\* a call without a listId of its own has returned the configured default
C31_Witness ==
    /\ spc = "returned" /\ senv.listId = "" /\ sresult.listId = "900"

(***************************************************************************)
(* Spec: the sprint-sync workflow                                          *)
(*   fetchTasksStep -> analyzeTicketsStep -> formatAndDeliverStep          *)
(* The analyze step and deliverWebhook are the actions of SpecAnalyze and  *)
(* SpecDeliver; the actions below hand the data from one to the next.      *)
(***************************************************************************)
\* the list the workflow syncs
ListId == "901"

\* what new Date().toISOString() can return during the step: the clock may
\* advance between two reads
Timestamps == <<"2026-02-13T23:59:59.999Z", "2026-02-14T00:00:00.000Z">>

\* the priorities of the tasks the task source returns, in the order in which
\* they follow one another in a fetched list
FetchedPriorities == <<[priority |-> "urgent"], [priority |-> "low"]>>

\* the task lists the task source may return: up to MaxFetched tasks whose
\* priorities alternate, starting with either
FetchedLists ==
    {[k \in 1..n |-> TaskWith(k, FetchedPriorities[((k + off) % 2) + 1])] :
        n \in 0..MaxFetched, off \in 0..1}

\* the default of deliverWebhook's retries parameter
DefaultRetries == 3

\* metadata.listName of the step: 'Sprint ' and the date of the clock reading
SprintListName(ts) ==
    CASE DatePart(ts) = "2026-02-13" -> "Sprint 2026-02-13"
      [] DatePart(ts) = "2026-02-14" -> "Sprint 2026-02-14"
      [] OTHER -> "Sprint 1970-01-01"

\* one ticket block of the inline rendering
InlineTicketMarkdown(item, index) ==
    <<  <<"### ", NumStr(index + 1), ". [", ToUpperCase(item.analysis.complexityTag), "] ", item.ticket.name>>,
        <<"- **ClickUp ID**: ", item.ticket.id>>,
        <<"- **Status**: ", item.ticket.status.status>>,
        <<"- **Quality**: ", NumStr(item.analysis.qualityScore), "/5">> >>
    \o (IF Len(item.analysis.affectedFiles) > 0
          THEN << <<"- **Affected files**: ">> \o JoinComma(item.analysis.affectedFiles) >>
          ELSE <<>>)
    \o << <<"- **Suggested approach**: ", item.analysis.suggestedApproach>>,
          <<"">>, <<"---">>, <<"">> >>

\* the markdown formatAndDeliverStep renders inline, for metadata read at
\* time ts with list name listName
InlineMarkdown(analyzedTickets, ts, listName) ==
    <<  <<"# Sprint: ", DatePart(ts)>>,
        <<"">>,
        <<"Synced from ClickUp List ", "'", listName, "'", " at ", ts>>,
        <<"Total tickets: ", NumStr(Len(analyzedTickets))>>,
        <<"">>,
        <<"**Summary:**">>,
        <<"- Fixes: ", NumStr(CountTag(analyzedTickets, "fix"))>>,
        <<"- Features: ", NumStr(CountTag(analyzedTickets, "feature"))>>,
        <<"- Average Quality Score: ">> \o AvgQuality(analyzedTickets) \o <<"/5">>,
        <<"">>,
        <<"## Tickets (ordered by priority)">>,
        <<"">> >>
    \o Flatten([k \in 1..Len(analyzedTickets) |-> InlineTicketMarkdown(analyzedTickets[k], k - 1)])

\* mutant: the step never returns early
FormatEarlyReturn_Never(analyzedTickets) == FALSE

\* analyzedTickets.length === 0
FormatEarlyReturn(analyzedTickets) == Len(analyzedTickets) = 0

\* mutant: the flag is set without regard to the outcome of the delivery
WebhookDelivered_Always(d) == TRUE

\* webhookDelivered: true iff deliverWebhook returned without throwing
WebhookDelivered(d) == d = "delivered"

\* mutant: one message for both outcomes of the delivery
DeliverResult_OneMessage(n, delivered) ==
    [success |-> TRUE,
     ticketCount |-> n,
     webhookDelivered |-> delivered,
     message |-> <<"Successfully analyzed ", NumStr(n), " tickets and delivered to webhook">>]

\* the result of formatAndDeliverStep after the delivery
DeliverResult(n, delivered) ==
    [success |-> TRUE,
     ticketCount |-> n,
     webhookDelivered |-> delivered,
     message |-> IF delivered
                   THEN <<"Successfully analyzed ", NumStr(n), " tickets and delivered to webhook">>
                   ELSE <<"Analyzed ", NumStr(n), " tickets but webhook delivery failed">>]

\* mutant: a run without tickets is reported as unsuccessful
NoTicketsResult_Failure ==
    [success |-> FALSE, ticketCount |-> 0, webhookDelivered |-> FALSE,
     message |-> <<"No tickets found in the list">>]

\* the result of the early return
NoTicketsResult ==
    [success |-> TRUE, ticketCount |-> 0, webhookDelivered |-> FALSE,
     message |-> <<"No tickets found in the list">>]

\* the raw item of a response that parses to this task
RawOf(task, k) == RawTask(k, task.priority)

\* a fetched task as the later stages read it
AsTask(item) ==
    LET t == item.v
        str(j) == IF j.t = "string" THEN j.v ELSE ""
        arr(j) == IF j.t = "array" THEN j.v ELSE <<>>
    IN  [id |-> str(t.id), name |-> str(t.name),
         status |-> [status |-> str(t.status.v.status)],
         priority |-> IF t.priority.t = "object"
                        THEN [priority |-> str(t.priority.v.priority)] ELSE NoPriority,
         description |-> str(t.description), assignees |-> arr(t.assignees),
         tags |-> arr(t.tags), due_date |-> str(t.due_date),
         custom_fields |-> arr(t.custom_fields), url |-> str(t.url)]

\* the environment the workflow runs in; its input always names the list
PipelineEnvs ==
    {[listId |-> ListId, CLICKUP_LIST_ID |-> "900", CLICKUP_API_TOKEN |-> t] :
        t \in {Undefined, "pk_token"}}

\* how the task source may behave in a run of the workflow
PipelineUpstreams ==
    {[kind |-> "responds", status |-> 200,
      items |-> [k \in 1..Len(ts) |-> RawOf(ts[k], k)]] : ts \in FetchedLists}
    \cup {[kind |-> "responds", status |-> 200,
           items |-> <<JObj([RawTask(1, NoPriority).v EXCEPT !.id = JNum(1), !.name = JUndef])>>],
          [kind |-> "responds", status |-> 200, items |-> <<JNull>>]}
    \cup {[kind |-> "responds", status |-> st, items |-> <<>>] : st \in SourceStatuses}
    \cup {[kind |-> "garbage", status |-> 200, items |-> <<>>],
          [kind |-> "unreachable", status |-> 0, items |-> <<>>]}

\* mutant: the step swallows the error of the fetch and ends the run as done
AfterFetchError_Swallow(err) == "done"

\* fetchTasksStep does not catch: an error of fetchClickUpTasks fails the run
AfterFetchError(err) == "failed"

\* mutant: the last step does not wait for the analyze step to return
AnalyzeStepDone_NoWait(p) == p \in {"await", "analyzed"}

\* .then(formatAndDeliverStep): the step runs once analyzeTicketsStep has
\* returned
AnalyzeStepDone(p) == p = "analyzed"

Init ==
    /\ wpc = "fetch"
    /\ wsecret \in {Undefined, "test-secret"}
    /\ wmarkdown = <<>>
    /\ wresult = NoResult
    /\ spc = "call"
    /\ svariant = "workflow"
    /\ senv \in PipelineEnvs
    /\ supstream \in PipelineUpstreams
    /\ srequests = <<>>
    /\ stimer = "unset"
    /\ sresult = NoFetchResult
    /\ serror = NoSourceError
    /\ AnalyzerIdle
    /\ StepIdle
    /\ DeliverIdle
    /\ ReceiverIdle
    /\ FormatIdle

\* fetchTasksStep returns the fetched tasks; analyzeTicketsStep is next
FlowFetchReturns ==
    /\ wpc = "fetch"
    /\ spc = "returned"
    /\ tasks' = [k \in 1..Len(sresult.tasks) |-> AsTask(sresult.tasks[k])]
    /\ modelLog' = [k \in 1..Len(sresult.tasks) |-> NoCall]
    /\ pc' = "analyze"
    /\ wpc' = "analyze"
    /\ UNCHANGED <<i, batch, slots, settled, results, wsecret, wmarkdown, wresult,
                   analyzerVars, deliverVars, recvVars, formatVars, sourceVars>>

\* fetchTasksStep throws: the run fails
FlowFetchFails ==
    /\ wpc = "fetch"
    /\ spc = "threw"
    /\ wpc' = AfterFetchError(serror)
    /\ UNCHANGED <<wsecret, wmarkdown, wresult,
                   analyzerVars, stepVars, deliverVars, recvVars, formatVars, sourceVars>>

\* formatAndDeliverStep up to its await: the early return, or the inline
\* rendering, the payload and the call of deliverWebhook
FlowFormatAndDeliver ==
    /\ wpc = "analyze"
    /\ AnalyzeStepDone(pc)
    /\ IF FormatEarlyReturn(results)
         THEN /\ wresult' = NoTicketsResult
              /\ wpc' = "done"
              /\ UNCHANGED <<wmarkdown, deliverVars>>
         ELSE \E t1, t2, t3 \in 1..Len(Timestamps) :
                /\ t1 <= t2 /\ t2 <= t3
                /\ wmarkdown' = InlineMarkdown(results, Timestamps[t1],
                                               SprintListName(Timestamps[t2]))
                /\ payload' = [sprintMarkdown |-> wmarkdown',
                               tickets |-> results,
                               metadata |-> [syncTimestamp |-> Timestamps[t3],
                                             ticketCount |-> Len(results),
                                             listId |-> sresult.listId]]
                /\ secret' = wsecret
                /\ retries' = DefaultRetries
                /\ dpc' = "call"
                /\ wpc' = "deliver"
                /\ UNCHANGED <<wresult, attempt, lastError, sent, outcomes, delays, thrown>>
    /\ UNCHANGED <<wsecret, analyzerVars, stepVars, recvVars, formatVars, sourceVars>>

\* deliverWebhook has returned or thrown (the throw is caught): the step
\* returns its result
FlowReturn ==
    /\ wpc = "deliver"
    /\ DeliverDone
    /\ wresult' = DeliverResult(Len(results), WebhookDelivered(dpc))
    /\ wpc' = "done"
    /\ UNCHANGED <<wsecret, wmarkdown, analyzerVars, stepVars, deliverVars, recvVars, formatVars, sourceVars>>

Next ==
    \/ SourceCall
    \/ SourceResponse
    \/ SourceUnreachable
    \/ SourceTimeout
    \/ SourceBody
    \/ FlowFetchReturns
    \/ FlowFetchFails
    \/ StepExecute
    \/ StepModelSettles
    \/ StepBatchDone
    \/ FlowFormatAndDeliver
    \/ DeliverCall
    \/ DeliverResponseOk
    \/ DeliverAttemptFails
    \/ DeliverBackoffElapsed
    \/ FlowReturn

Spec == Init /\ [][Next]_vars

\* the run has passed the fetch and the task source returned no task
EmptyRun == wpc \in {"analyze", "deliver", "done"} /\ Len(tasks) = 0

\* C13: when the task source returns an empty list, the run makes no model
\* call, renders no report and sends no delivery request, and it ends with
\* the result {success: true, ticketCount: 0, webhookDelivered: false} whose
\* message says that no tickets were found.
C13_EmptyListEndsEarly ==
    EmptyRun =>
        /\ slots = <<>> /\ settled = <<>> /\ results = <<>> /\ InFlight = {}
        /\ wmarkdown = <<>>
        /\ dpc = "idle" /\ sent = <<>>
        /\ wpc # "deliver"
        /\ wpc = "done" =>
              /\ wresult.success = TRUE
              /\ wresult.ticketCount = 0
              /\ wresult.webhookDelivered = FALSE
              /\ wresult.message = <<"No tickets found in the list">>

\* an empty run has ended with its result
C13_Witness == EmptyRun /\ wpc = "done" /\ wresult.success /\ pc = "analyzed"

\* the run has ended after deliverWebhook threw
DeliveryFailedRun == wpc = "done" /\ dpc = "failed"

\* C14: when the delivery fails after all its attempts the run does not fail
\* and keeps the analysis: the result has success true, ticketCount the
\* number of analyzed items, webhookDelivered false and the message
\* 'Analyzed N tickets but webhook delivery failed', which differs from the
\* result of a run whose delivery succeeded.
C14_DeliveryFailureKeepsAnalysis ==
    /\ DeliveryFailedRun =>
          /\ Len(sent) = DefaultRetries
          /\ Len(results) = Len(tasks)
          /\ \A k \in 1..Len(tasks) : results[k].ticket = tasks[k]
          /\ wresult.success = TRUE
          /\ wresult.ticketCount = Len(tasks)
          /\ wresult.webhookDelivered = FALSE
          /\ wresult.message =
                <<"Analyzed ", NumStr(Len(tasks)), " tickets but webhook delivery failed">>
    /\ (wpc = "done" /\ dpc = "delivered") =>
          /\ wresult.webhookDelivered = TRUE
          /\ wresult.message =
                <<"Successfully analyzed ", NumStr(Len(tasks)), " tickets and delivered to webhook">>
    /\ wpc = "failed" => dpc = "idle"

\* a run of two analyzed tickets whose three delivery attempts all failed
C14_Witness ==
    /\ DeliveryFailedRun /\ Len(results) = 2 /\ Len(outcomes) = 3
    /\ \A k \in 1..3 : AttemptFailed(k)

\* the ticket ids of a list of analyzed tickets, in order
IdsOf(items) == [k \in 1..Len(items) |-> items[k].ticket.id]

\* C15: in the report the run renders and delivers, the items appear in the
\* Formatter's sort order whatever order the task source returned them in
\* (an Urgent/fix item is listed before a Low/feature item fetched ahead of
\* it).
C15_ReportInFormatterOrder ==
    (wpc \in {"deliver", "done"} /\ wmarkdown # <<>>) =>
        RenderedIds(wmarkdown) = IdsOf(sortTickets(results))

\* the steps the program takes by itself, timers included; a response of the
\* task source, of the model or of the destination is not among them
ProgramStep ==
    \/ SourceCall
    \/ SourceTimeout
    \/ FlowFetchReturns
    \/ FlowFetchFails
    \/ StepExecute
    \/ StepBatchDone
    \/ FlowFormatAndDeliver
    \/ DeliverCall
    \/ DeliverBackoffElapsed
    \/ FlowReturn

\* the workflow when the program keeps running but no remote party is bound
\* to answer
FairSpec == Spec /\ WF_vars(ProgramStep)

\* some model call of the run has started
ModelCallStarted ==
    \/ slots # <<>>
    \/ \E k \in DOMAIN modelLog : modelLog[k].kind # "nocall"

\* some model call of the run has failed
SomeAnalysisFailed == \E k \in DOMAIN modelLog : modelLog[k].kind = "error"

\* C27: an error of the source client (configuration, auth, rate limit,
\* timeout, upstream status) ends the run: after it no model call is made,
\* no report is rendered and no delivery request is sent; a failure of an
\* analysis never ends the run.
C27_SourceErrorEndsRun ==
    /\ spc = "threw" =>
          /\ wpc \in {"fetch", "failed"}
          /\ serror # NoSourceError
          /\ pc = "idle" /\ ~ModelCallStarted /\ results = <<>>
          /\ wmarkdown = <<>>
          /\ dpc = "idle" /\ sent = <<>>
          /\ wresult = NoResult
    /\ wpc = "failed" => spc = "threw"
    /\ SomeAnalysisFailed => wpc \in {"analyze", "deliver", "done"}

\* a run that failed on a rate-limited fetch
C27_Witness ==
    /\ wpc = "failed" /\ spc = "threw" /\ supstream.status = 429
    /\ serror = UpstreamError(429)

\* the three messages of a result
SaysNoTickets(m) == m = <<"No tickets found in the list">>
SaysDelivered(m) ==
    Len(m) = 3 /\ m[1] = "Successfully analyzed " /\ m[3] = " tickets and delivered to webhook"
SaysDeliveryFailed(m) ==
    Len(m) = 3 /\ m[1] = "Analyzed " /\ m[3] = " tickets but webhook delivery failed"

\* C28: every result of the workflow carries exactly one of the three
\* messages, the one of its outcome: 'no tickets found' iff ticketCount = 0,
\* 'delivered' iff ticketCount > 0 and webhookDelivered, 'analyzed but
\* delivery failed' iff ticketCount > 0 and not webhookDelivered; the count
\* of tickets is in the result.
C28_MessageMatchesOutcome ==
    wpc = "done" =>
        LET m == wresult.message
            n == wresult.ticketCount
        IN  /\ n = Len(tasks)
            /\ SaysNoTickets(m) <=> n = 0
            /\ SaysDelivered(m) <=> (n > 0 /\ wresult.webhookDelivered)
            /\ SaysDeliveryFailed(m) <=> (n > 0 /\ ~wresult.webhookDelivered)
            /\ n > 0 => m[2] = NumStr(n)

\* a run of two tickets whose delivery succeeded
C28_Witness ==
    /\ wpc = "done" /\ wresult.ticketCount = 2 /\ wresult.webhookDelivered
    /\ SaysDelivered(wresult.message)

\* C29: every run terminates: it reaches a final result or an error even
\* when a remote party never answers a request.
C29_EveryRunTerminates == <>(wpc \in {"done", "failed"})

\* C30: the stages of a run occur in the order fetch, analyze, format,
\* deliver: no model call starts before the fetch has returned, and nothing
\* is rendered or sent before the analysis of every task has completed.
C30_StagesInOrder ==
    /\ (pc # "idle" \/ ModelCallStarted) => (spc = "returned" /\ wpc # "fetch")
    /\ (wpc \in {"deliver", "done"} \/ wmarkdown # <<>> \/ dpc # "idle" \/ sent # <<>>) =>
          /\ pc = "analyzed"
          /\ Len(results) = Len(tasks)
          /\ \A k \in DOMAIN modelLog : modelLog[k].kind # "nocall"
    /\ (dpc # "idle" \/ sent # <<>>) => wmarkdown # <<>>

\* the first delivery request of a run of two analyzed tickets is out
C30_Witness ==
    /\ wpc = "deliver" /\ Len(sent) = 1 /\ Len(results) = 2
    /\ spc = "returned" /\ pc = "analyzed"

\* the step has rendered its report and built the payload of the delivery
PayloadBuilt == wpc \in {"deliver", "done"} /\ wmarkdown # <<>>

\* C32: the payload handed to deliverWebhook holds the rendered report, all
\* analyzed tickets in the order of the analyze step, and the metadata the
\* report was rendered from: the same sync timestamp, a ticket count equal
\* to the number of tickets, the list id and the list name.
C32_PayloadCarriesRenderMetadata ==
    PayloadBuilt =>
        /\ payload.sprintMarkdown = wmarkdown
        /\ payload.tickets = results
        /\ payload.metadata.ticketCount = Len(results)
        /\ payload.metadata.listId = sresult.listId
        /\ payload.metadata.syncTimestamp = wmarkdown[3][6]
        /\ "listName" \in DOMAIN payload.metadata
        /\ payload.metadata.listName = wmarkdown[3][3]

\* the metadata object the step renders its report from, read back from the
\* report's third line
RenderMetadata ==
    [syncTimestamp |-> wmarkdown[3][6], ticketCount |-> Len(results),
     listId |-> sresult.listId, listName |-> wmarkdown[3][3]]

\* C33: the report the step renders inline is the report
\* sprintFormatterTool.execute produces for the same analyzed tickets and
\* metadata: same order of the items, same lines for each item.
C33_InlineRenderIsFormatterRender ==
    PayloadBuilt => wmarkdown = FormatMarkdown(results, RenderMetadata)

\* the headings of a report, in order
Headings(md) == SelectSeq(md, IsHeadingLine)

\* the number a summary line of the report gives after this label
SummaryCount(md, label) ==
    LET IsThatLine(line) == line[1] = label
    IN  DigitOf(SelectSeq(md, IsThatLine)[1][2])

C35_ResultFields ==
    wpc = "done" =>
        /\ wresult.success = TRUE
        /\ wresult.webhookDelivered =>
              /\ wresult.ticketCount > 0
              /\ \E k \in 1..Len(outcomes) : ResponseOk(outcomes[k])
        /\ spc = "returned"
        /\ wresult.ticketCount = Len(sresult.tasks)

\* a run of two fetched tasks was delivered at its second attempt
C35_Witness ==
    /\ wpc = "done" /\ Len(sresult.tasks) = 2
    /\ wresult = DeliverResult(2, TRUE)
    /\ Len(outcomes) = 2 /\ AttemptFailed(1) /\ ResponseOk(outcomes[2])

\* the receiver has answered its request
Responded == rpc = "responded"

\* the request was rejected: OPTIONS, 405 for another method than POST, 401
\* for a signature failure, 400 for a missing sprintMarkdown, 500 for a body
\* that does not parse
Rejected ==
    \/ rreq.method = "OPTIONS"
    \/ rresp.status \in {405, 401, 400}
    \/ rresp.status = 500 /\ rreq.method = "POST" /\ ~Parses(rreq.body)

\* C36: the receiver writes the sprint file only for a POST that passed the
\* signature verification (when a secret is configured) and carries a
\* non-empty sprintMarkdown; a rejected request (OPTIONS, 405, 401, 400, 500
\* for an unparsable body) leaves the file as it was.
C36_RejectedRequestWritesNothing ==
    /\ [](Responded =>
            /\ rfile # NoFile =>
                  /\ rreq.method = "POST"
                  /\ Truthy(rsecret) => VerificationPassed
                  /\ Parses(rreq.body)
                  /\ JSONparse(rreq.body).sprintMarkdown # ""
                  /\ \A f \in rfile : f.content = JSONparse(rreq.body).sprintMarkdown
            /\ Rejected =>
                  /\ rfile = NoFile
                  /\ \A k \in 1..Len(rtrace) : rtrace[k] # "write")
    /\ [][(Responded /\ Rejected)' => rfile' = rfile]_vars

\* a signed POST without sprintMarkdown was answered 400 and nothing was
\* written
C36_Witness ==
    /\ Responded /\ Rejected /\ rreq.method = "POST"
    /\ Truthy(rsecret) /\ VerificationPassed
    /\ rresp = [status |-> 400, error |-> "Missing sprintMarkdown in payload"]
    /\ rtrace = <<"verify-ok", "parse">>
    /\ rfile = NoFile

\* C39: deliverWebhook called with retries <= 0 sends no request and throws
\* the generic error 'Webhook delivery failed after retries'; called with
\* retries >= 1 it has sent at least one request, and seen it fail, before
\* it throws.
C39_NoAttemptsGenericError ==
    /\ (retries <= 0 /\ dpc # "call") =>
          /\ dpc = "failed"
          /\ sent = <<>> /\ outcomes = <<>> /\ delays = <<>>
          /\ thrown = GenericError
    /\ (retries >= 1 /\ dpc = "failed") =>
          /\ Len(sent) >= 1
          /\ Len(outcomes) = Len(sent)
          /\ thrown = ErrorOf(outcomes[Len(outcomes)])
          /\ thrown # GenericError

\* a call without attempts has thrown
C39_Witness ==
    /\ retries <= 0 /\ dpc = "failed" /\ sent = <<>>
    /\ thrown.message = "Webhook delivery failed after retries"

(***************************************************************************)
(* SpecEndToEnd: deliverWebhook with its default retries, sending to the   *)
(* webhook receiver over a network that may lose a request or a response   *)
(***************************************************************************)
\* the server listens and no request is being handled
NoRequest ==
    [method |-> "", headers |-> BaseHeaders, body |-> <<>>,
     signedPayload |-> NoPayload, signedSecret |-> Undefined, headerAsSent |-> FALSE]

InitEndToEnd ==
    /\ dpc = "call"
    /\ payload \in Payloads \cup {NoMetadataPayload}
    /\ secret \in Secrets
    /\ retries = DefaultRetries
    /\ attempt = 0
    /\ lastError = NoError
    /\ sent = <<>>
    /\ outcomes = <<>>
    /\ delays = <<>>
    /\ thrown = NoError
    /\ rpc = "waiting"
    /\ rsecret \in ReceiverSecrets
    /\ rreq = NoRequest
    /\ rresp = NoResponse
    /\ rtrace = <<>>
    /\ rfile = NoFile
    /\ AnalyzerIdle
    /\ StepIdle
    /\ FormatIdle
    /\ FlowIdle
    /\ SourceIdle

\* the request of the current attempt reaches the server
NetRequestArrives ==
    /\ dpc = "inflight"
    /\ rpc = "waiting"
    /\ rreq' = [method |-> sent[Len(sent)].method,
                headers |-> IncomingHeaders(sent[Len(sent)].headers),
                body |-> sent[Len(sent)].body,
                signedPayload |-> payload,
                signedSecret |-> secret,
                headerAsSent |-> TRUE]
    /\ rresp' = NoResponse
    /\ rpc' = "listening"
    /\ UNCHANGED <<rsecret, rtrace, rfile,
                   analyzerVars, stepVars, deliverVars, formatVars, sourceVars, flowVars>>

\* what fetch resolves with for the server's response
AsFetched(resp) == [kind |-> "response", status |-> resp.status, body |-> ""]

\* the server's response reaches the client
NetResponseArrives ==
    /\ rpc = "responded"
    /\ DeliverOk(AsFetched(rresp)) \/ DeliverCatch(AsFetched(rresp))
    /\ rpc' = "waiting"
    /\ UNCHANGED <<rsecret, rreq, rresp, rtrace, rfile,
                   analyzerVars, stepVars, formatVars, sourceVars, flowVars>>

\* the server has answered and the response is lost: fetch rejects
NetResponseLost ==
    /\ rpc = "responded"
    /\ DeliverCatch([kind |-> "neterror", status |-> 0, body |-> ""])
    /\ rpc' = "waiting"
    /\ UNCHANGED <<rsecret, rreq, rresp, rtrace, rfile,
                   analyzerVars, stepVars, formatVars, sourceVars, flowVars>>

\* the request does not reach the server: fetch rejects
NetRequestLost ==
    /\ rpc = "waiting"
    /\ DeliverCatch([kind |-> "neterror", status |-> 0, body |-> ""])
    /\ UNCHANGED <<recvVars, analyzerVars, stepVars, formatVars, sourceVars, flowVars>>

NextEndToEnd ==
    \/ DeliverCall
    \/ NetRequestArrives
    \/ NetRequestLost
    \/ RecvRequest
    \/ RecvEnd
    \/ NetResponseArrives
    \/ NetResponseLost
    \/ DeliverBackoffElapsed

SpecEndToEnd == InitEndToEnd /\ [][NextEndToEnd]_vars

\* how often the receiver has written a sprint file
IsWrite(op) == op = "write"
Writes == Len(SelectSeq(rtrace, IsWrite))

\* no request and no response of the call has been lost
Reachable == \A k \in 1..Len(outcomes) : outcomes[k].kind = "response"

SameRequests == \A j, k \in 1..Len(sent) : sent[j] = sent[k]

\* every sprint file holds the report of the call's payload
SameContent == \A f \in rfile : f.content = payload.sprintMarkdown

\* every response the client received had the same status
SameAnswers ==
    \A j, k \in 1..Len(outcomes) :
        (outcomes[j].kind = "response" /\ outcomes[k].kind = "response") =>
            outcomes[j].status = outcomes[k].status

HandlerRuns == rpc = "body" /\ rpc' = "responded"

\* the names of the files of a directory
Names(dir) == {f.name : f \in dir}

====
